---- MODULE Spec2Model ----
(***************************************************************************)
(* HarvestHub (COC Evangelism AI Assistant): a model of the sanitizer and  *)
(* serializer (scrub / safeStringify), of the new-outreach submission, and *)
(* of the application's session, user and prospect state over its two      *)
(* backends (remote document store, local storage).                        *)
(***************************************************************************)
EXTENDS Integers, Sequences, FiniteSets, TLC

(***************************************************************************)
(* Bounds of the model.                                                    *)
(***************************************************************************)
\* objects and arrays in the graph handed to scrub
NumNodes == 2
\* own properties and array elements in the whole graph
MaxProps == 2
\* frames the engine's call stack holds before it raises RangeError
StackLimit == 6
\* principals known to the identity collaborator
NumUids == 2
\* profiles ever registered in local storage
MaxLocalUsers == 3
\* edits of user records in a run
MaxEdits == 2
\* page loads after the first in a run
MaxReloads == 1
\* prospects created in a run
MaxProspects == 2
\* follow-up notes written in a run
MaxNotes == 2

VARIABLES
  heap,      \* sanitizer input: the object graph, node id -> [kind, items]
  arg,       \* sanitizer input: the value passed to scrub / safeStringify
  sanPc,     \* "build" | "scrubbed" | "rescrubbed" | "encoded"
  out,       \* result of scrub(arg)
  out2,      \* result of scrub(scrub(arg))
  text       \* result of safeStringify(arg)

sanVars == <<heap, arg, sanPc, out, out2, text>>

VARIABLES
  loginBuild,       \* which Login component is bundled: "Login.tsx" | "part_000"
  configured,       \* firebase.ts isFirebaseConfigured (fixed per page load)
  fbReady,          \* firebase.ts auth and db are set
  cfgSaved,         \* local storage holds harvest_hub_cloud_config
  invitedRole,      \* Login invitedRole, from the refRole URL parameter ("" = null)
  cloudEnabled,     \* App cloudEnabled
  listening,        \* the branch the App effect last ran: "remote" | "local"
  user,             \* App user (NoUser = null)
  appLoading,       \* App loading
  registeredUsers,  \* App registeredUsers
  showTour,         \* App showTour
  permissionError,  \* App permissionError
  authUid,          \* the identity collaborator's signed-in principal (0 = none)
  accounts,         \* the identity collaborator's accounts
  inflight,         \* onAuthStateChanged callbacks awaiting getDoc, by principal
  rUsers,           \* remote collection 'users': uid -> profile (NoUser = no document)
  lsUsers,          \* local storage evangelism_users
  lsSession,        \* local storage evangelism_session (NoUser = absent)
  lsNext,           \* local ids handed out by crypto.randomUUID so far
  mode,             \* Login mode: "login" | "signup" | "forgotPassword" | "resetConfirm"
  loginPc,          \* position of the Login handler in flight
  edits,            \* number of edits of user records so far
  reloads,          \* number of page loads after the first
  regUid,           \* Login handler: the principal it authenticated
  regFirst          \* Login handler: isFirstUser

appVars == <<loginBuild, configured, fbReady, cfgSaved, invitedRole, cloudEnabled,
             listening, user, appLoading, registeredUsers, showTour,
             permissionError, authUid, accounts, inflight, rUsers, lsUsers,
             lsSession, lsNext, mode, loginPc, regUid, regFirst, edits, reloads>>

VARIABLES
  rProspects,       \* remote store: collection 'prospects', by document id
  lsProspects,      \* localStorage 'evangelism_prospects'
  prospects,        \* App state: the cached prospects
  selectedProspectId, \* App state; 0 stands for null
  aiPc,             \* NewOutreach.handleSubmit: "idle" or "awaiting" the AI
  savedClosure,     \* the prospects the addProspect held by that handleSubmit closed over
  nextPid,          \* number of prospect ids drawn so far
  nextNote,         \* number of follow-up notes written so far
  added             \* history: per prospect, its follow-up notes in order of addition

prospVars == <<rProspects, lsProspects, prospects, selectedProspectId, aiPc,
               savedClosure, nextPid, nextNote, added>>

VARIABLES
  lsCorrupt,        \* the local-storage keys whose content is not parsable JSON
  uncaught,         \* an exception has escaped a handler since the page was loaded
  syncLog,          \* the last error a subscription logged to the console
  isSuccess         \* CloudSetup: isSuccess, the screen "Cloud Connected!"

faultVars == <<lsCorrupt, uncaught, syncLog, isSuccess>>

\* nothing logged yet
NoLog == [msg |-> "", code |-> ""]

vars == <<sanVars, appVars, prospVars, faultVars>>

(***************************************************************************)
(* JavaScript values.  A value is an atom or a reference to a node of the  *)
(* heap; a node is a plain object or an array and holds its own properties *)
(* (elements) in enumeration order.                                        *)
(*   undef  undefined            null  null                                *)
(*   num    a number/string/boolean                                        *)
(*   fn     a function (typeof 'function')                                 *)
(*   big    a BigInt (typeof 'bigint')                                     *)
(*   inst   an instance of a class (Date, DOM node, SDK handle):           *)
(*          typeof 'object', not a plain object                            *)
(***************************************************************************)
AtomTypes == {"undef", "null", "num", "fn", "big", "inst"}
Atom(t) == [t |-> t, r |-> 0]
Ref(n) == [t |-> "ref", r |-> n]
NodeIds == 1..NumNodes
Values == {Atom(t) : t \in AtomTypes} \cup {Ref(n) : n \in NodeIds}
KeyNames == <<"a", "b", "c", "d", "e", "f">>

\* a tree: the structure of a freshly built (unshared, acyclic) value
\* (src names the node of the input graph a node was built from; it is not part
\* of the JavaScript value)
Leaf(t) == [t |-> t, items |-> <<>>, src |-> 0]
Undefined == Leaf("undef")
\* the marker of a raised exception
Thrown == Leaf("thrown")

RECURSIVE SumItems(_, _)
SumItems(h, n) == IF n = 0 THEN 0 ELSE Len(h[n].items) + SumItems(h, n - 1)
TotalProps(h) == SumItems(h, Len(h))

(***************************************************************************)
(* scrub                                                                   *)
(***************************************************************************)
\* line 22: obj === null || typeof obj !== 'object'
isNotObject(v) == v.t \in {"undef", "null", "num", "fn", "big"}

\* line 25: seen.has(obj); only objects that were added are members
seenHasMutNever(seen, v) == FALSE
seenHas(seen, v) == v.t = "ref" /\ v.r \in seen

\* lines 34-35: Object.prototype.toString is '[object Object]' and the
\* constructor is Object or undefined
isPlain(h, v) == v.t = "ref" /\ h[v.r].kind = "obj"

\* line 27: Array.isArray(obj)
isArray(h, v) == v.t = "ref" /\ h[v.r].kind = "arr"

\* lines 29 and 46: v !== undefined, tested on the scrubbed value
isDroppedMutInput(orig, val) == orig.t = "undef"
isDropped(orig, val) == val = Undefined

\* scrub(obj, seen) at call depth d: [val |-> the result, seen |-> the WeakSet
\* after the call].  The WeakSet is one object shared by the whole recursion.
RECURSIVE scrub(_, _, _, _)
RECURSIVE scrubItems(_, _, _, _, _, _)
scrub(h, v, seen, d) ==
  IF d > StackLimit THEN [val |-> Thrown, seen |-> seen]
  ELSE IF isNotObject(v) THEN [val |-> Leaf(v.t), seen |-> seen]
  ELSE IF seenHas(seen, v) THEN [val |-> Undefined, seen |-> seen]
  ELSE IF isArray(h, v) THEN
    LET r == scrubItems(h, h[v.r].items, 1, seen \cup {v.r}, d, <<>>)
    IN  IF r.thrown THEN [val |-> Thrown, seen |-> r.seen]
        ELSE [val |-> [t |-> "arr",
                       items |-> [i \in 1..Len(r.items) |->
                                    [k |-> "", v |-> r.items[i].v]],
                       src |-> v.r],
              seen |-> r.seen]
  ELSE IF ~isPlain(h, v) THEN [val |-> Undefined, seen |-> seen]
  ELSE
    LET r == scrubItems(h, h[v.r].items, 1, seen \cup {v.r}, d, <<>>)
    IN  IF r.thrown THEN [val |-> Thrown, seen |-> r.seen]
        ELSE [val |-> [t |-> "obj", items |-> r.items, src |-> v.r],
              seen |-> r.seen]

\* the loop over the elements (line 29) or own keys (lines 43-51), from item i:
\* each is scrubbed in order and kept unless its result is undefined
scrubItems(h, items, i, seen, d, acc) ==
  IF i > Len(items) THEN [items |-> acc, seen |-> seen, thrown |-> FALSE]
  ELSE
    LET r == scrub(h, items[i].v, seen, d + 1)
    IN  IF r.val = Thrown THEN [items |-> acc, seen |-> r.seen, thrown |-> TRUE]
        ELSE scrubItems(h, items, i + 1, r.seen, d,
                        IF isDropped(items[i].v, r.val) THEN acc
                        ELSE Append(acc, [k |-> items[i].k, v |-> r.val]))

\* scrub(obj) with the default seen = new WeakSet()
scrubTop(h, v) == scrub(h, v, {}, 1).val

(***************************************************************************)
(* A tree laid out as a graph again (fresh objects, numbered in pre-order) *)
(* so that scrub can be applied to the result of scrub.                    *)
(***************************************************************************)
RECURSIVE Lay(_, _)
RECURSIVE LayItems(_, _, _, _, _)
\* Lay(tree, h): [h |-> h extended with the tree's nodes, v |-> its value]
Lay(tree, h) ==
  IF tree.t \notin {"obj", "arr"} THEN [h |-> h, v |-> Atom(tree.t)]
  ELSE
    LET id == Len(h) + 1
        h1 == Append(h, [kind |-> tree.t, items |-> <<>>])
        r  == LayItems(tree.items, 1, h1, id, <<>>)
    IN  [h |-> [r.h EXCEPT ![id].items = r.items], v |-> Ref(id)]
LayItems(items, i, h, id, acc) ==
  IF i > Len(items) THEN [h |-> h, items |-> acc]
  ELSE LET r == Lay(items[i].v, h)
       IN  LayItems(items, i + 1, r.h, id, Append(acc, [k |-> items[i].k, v |-> r.v]))

\* the JavaScript value alone
RECURSIVE Shape(_)
Shape(tree) ==
  [t |-> tree.t,
   items |-> [i \in 1..Len(tree.items) |->
                [k |-> tree.items[i].k, v |-> Shape(tree.items[i].v)]]]

scrubTree(tree) ==
  IF tree = Thrown THEN Thrown
  ELSE LET g == Lay(tree, <<>>) IN scrubTop(g.h, g.v)

(***************************************************************************)
(* JSON.stringify and JSON.parse over token sequences                      *)
(***************************************************************************)
RECURSIVE HasBigInt(_)
HasBigInt(tree) ==
  \/ tree.t = "big"
  \/ \E i \in 1..Len(tree.items) : HasBigInt(tree.items[i].v)

\* values JSON.stringify leaves out of an object and writes as null in an array
Unencodable(tree) == tree.t \in {"undef", "fn"}

RECURSIVE Encode(_)
RECURSIVE EncodeItems(_, _, _, _)
Encode(tree) ==
  CASE tree.t = "num"  -> <<"1">>
    [] tree.t = "null" -> <<"null">>
    [] tree.t = "arr"  -> <<"[">> \o EncodeItems(tree.items, 1, FALSE, TRUE) \o <<"]">>
    [] tree.t = "obj"  -> <<"{">> \o EncodeItems(tree.items, 1, FALSE, FALSE) \o <<"}">>
    [] OTHER           -> <<"null">>
EncodeItems(items, i, comma, inArray) ==
  IF i > Len(items) THEN <<>>
  ELSE IF ~inArray /\ Unencodable(items[i].v)
       THEN EncodeItems(items, i + 1, comma, inArray)
  ELSE (IF comma THEN <<",">> ELSE <<>>)
       \o (IF inArray THEN <<>> ELSE <<items[i].k, ":">>)
       \o Encode(items[i].v)
       \o EncodeItems(items, i + 1, TRUE, inArray)

\* JSON.stringify(value): a string, the value undefined, or a TypeError
JSONstringify(tree) ==
  IF Unencodable(tree) THEN [kind |-> "undefined", text |-> <<>>]
  ELSE IF HasBigInt(tree) THEN [kind |-> "throw", text |-> <<>>]
  ELSE [kind |-> "string", text |-> Encode(tree)]

\* JSON.parse as a recognizer: ParseValue(s, i) is the index after the value
\* that starts at token i, or 0 when there is none
RECURSIVE ParseValue(_, _)
RECURSIVE ParseElements(_, _)
RECURSIVE ParseMembers(_, _)
IsKeyToken(tok) == \E j \in 1..Len(KeyNames) : KeyNames[j] = tok
ParseValue(s, i) ==
  IF i > Len(s) THEN 0
  ELSE IF s[i] \in {"1", "null"} THEN i + 1
  ELSE IF s[i] = "[" THEN
    IF i + 1 <= Len(s) /\ s[i + 1] = "]" THEN i + 2 ELSE ParseElements(s, i + 1)
  ELSE IF s[i] = "{" THEN
    IF i + 1 <= Len(s) /\ s[i + 1] = "}" THEN i + 2 ELSE ParseMembers(s, i + 1)
  ELSE 0
ParseElements(s, i) ==
  LET j == ParseValue(s, i)
  IN  IF j = 0 \/ j > Len(s) THEN 0
      ELSE IF s[j] = "]" THEN j + 1
      ELSE IF s[j] = "," THEN ParseElements(s, j + 1)
      ELSE 0
ParseMembers(s, i) ==
  IF i + 1 > Len(s) \/ ~IsKeyToken(s[i]) \/ s[i + 1] # ":" THEN 0
  ELSE LET j == ParseValue(s, i + 2)
       IN  IF j = 0 \/ j > Len(s) THEN 0
           ELSE IF s[j] = "}" THEN j + 1
           ELSE IF s[j] = "," THEN ParseMembers(s, j + 1)
           ELSE 0
Parsable(s) == ParseValue(s, 1) = Len(s) + 1

(***************************************************************************)
(* safeStringify                                                           *)
(***************************************************************************)
\* the catch block's result, "{}"
EmptyObjectText == [kind |-> "string", text |-> <<"{", "}">>]

safeStringify(h, v) ==
  LET s == scrubTop(h, v)
  IN  IF s = Thrown THEN EmptyObjectText
      ELSE LET j == JSONstringify(s)
           IN  IF j.kind = "throw" THEN EmptyObjectText ELSE j

(***************************************************************************)
(* Users, sessions and the two backends                                    *)
(***************************************************************************)
Uids == 1..NumUids
\* UserRole and UserStatus
SUPER_ADMIN == "SuperAdmin"
ADMIN == "Admin"
TEAM_MEMBER == "Team Member"
PENDING == "Pending"
APPROVED == "Approved"
REJECTED == "Rejected"

\* a User; team and tour (hasSeenTour) are "-" when the key is absent
NoUser == [id |-> 0, email |-> 0, role |-> "", status |-> "", team |-> "",
           name |-> "", tour |-> ""]
UserFields == {"id", "email", "role", "status", "team", "name", "tour"}

\* scrub on a flat record of primitives: the keys whose value is undefined go
scrubFlat(d) == [k \in {f \in DOMAIN d : d[f] # "undefined"} |-> d[k]]

\* { ...u, ...d }
Spread(u, d) == [f \in DOMAIN u \cup DOMAIN d |-> IF f \in DOMAIN d THEN d[f] ELSE u[f]]

\* prev.map(u => u.id === id ? f(u) : u) with f(u) = { ...u, ...d }
MapMerge(list, id, d) ==
  [i \in 1..Len(list) |-> IF list[i].id = id THEN Spread(list[i], d) ELSE list[i]]
\* users.map(u => u.id === id ? rec : u)
MapReplace(list, id, rec) ==
  [i \in 1..Len(list) |-> IF list[i].id = id THEN rec ELSE list[i]]

\* updateDoc(doc(db, 'users', id), d): merges d into the document; no
\* document is created or touched when there is none (the call rejects)
updateDoc(store, id, d) ==
  IF id \notin DOMAIN store \/ store[id] = NoUser THEN store
  ELSE [store EXCEPT ![id] = Spread(@, d)]

\* snapshot.docs of collection 'users', in document-id order
RECURSIVE DocsFrom(_, _)
DocsFrom(store, n) ==
  IF n > NumUids THEN <<>>
  ELSE (IF store[n] = NoUser THEN <<>> ELSE <<store[n]>>) \o DocsFrom(store, n + 1)
SnapshotUsers(store) == DocsFrom(store, 1)
\* usersSnapshot.empty
IsEmptyCollection(store) == \A u \in Uids : store[u] = NoUser

\* users.find(u => u.email === email): index of the first match, 0 if none
RECURSIVE FindByEmail(_, _, _)
FindByEmail(list, e, i) ==
  IF i > Len(list) THEN 0
  ELSE IF list[i].email = e THEN i ELSE FindByEmail(list, e, i + 1)

\* App renders Login when loading is false and user is null
LoginShown == ~appLoading /\ user = NoUser
\* Login: isFirebaseConfigured && auth && db && !forceLocal, with forceLocal
\* its initial value !isFirebaseConfigured
LoginRemote == configured /\ fbReady
\* App: cloudEnabled && fbDb, the test of every write path
AppRemoteMutLocal == FALSE
AppRemote == cloudEnabled /\ fbReady
\* Login on mount: mode is 'signup' when the URL carries refRole
MountMode == IF invitedRole # "" THEN "signup" ELSE "login"
\* invitedRole || UserRole.TEAM_MEMBER
roleToAssign == IF invitedRole # "" THEN invitedRole ELSE TEAM_MEMBER

\* the profile a registration builds
newUserMutAlwaysApproved(id, e, isFirst, tour) ==
  [id |-> id, email |-> e, name |-> "n0", team |-> "-", tour |-> tour,
   role |-> IF isFirst THEN SUPER_ADMIN ELSE roleToAssign,
   status |-> APPROVED]
newUser(id, e, isFirst, tour) ==
  [id |-> id, email |-> e, name |-> "n0", team |-> "-", tour |-> tour,
   role |-> IF isFirst THEN SUPER_ADMIN ELSE roleToAssign,
   status |-> IF isFirst THEN APPROVED ELSE PENDING]

(***************************************************************************)
(* Prospects                                                               *)
(***************************************************************************)
PIds == 1..MaxProspects
\* HungerLevel.MEDIUM
MEDIUM == "Medium"

\* an AIReview
NoReview == [hungerLevel |-> "", suggestedVerse |-> "", suggestedNextAction |-> "",
             summary |-> ""]
\* the review analyzePreachingNotes returns from its catch block (lines 38-43)
ParseFailureReview ==
  [hungerLevel |-> MEDIUM, suggestedVerse |-> "Psalm 23:1",
   suggestedNextAction |-> "Visit again and build relationship.",
   summary |-> "Notes were captured successfully."]

\* what the AI collaborator can answer: the request is rejected, or a response
\* arrives whose text is absent, is not JSON, is the JSON null, or is a JSON
\* object with the four keys, its hungerLevel one of the three levels
\* ("object") or another string ("offEnum": the response schema asks for a
\* string, not for one of the levels)
AIOutcomes == {"rejected", "noText", "notJSON", "null", "object", "offEnum"}

\* JSON.parse(response.text || '{}'): "throw", "null", or an object given as a
\* record in which "" stands for a missing key
JSONparse(o) ==
  CASE o = "noText" -> [kind |-> "object", val |-> NoReview]
    [] o = "notJSON" -> [kind |-> "throw", val |-> NoReview]
    [] o = "null" -> [kind |-> "null", val |-> NoReview]
    [] o = "object" -> [kind |-> "object",
                        val |-> [hungerLevel |-> "High", suggestedVerse |-> "v1",
                                 suggestedNextAction |-> "a1", summary |-> "s1"]]
    [] o = "offEnum" -> [kind |-> "object",
                         val |-> [hungerLevel |-> "Very High", suggestedVerse |-> "v1",
                                  suggestedNextAction |-> "a1", summary |-> "s1"]]

\* x || y on strings
OrElse(x, y) == IF x # "" THEN x ELSE y

\* analyzePreachingNotes once the response has arrived (lines 28-44): reading
\* a property of null raises inside the try
analyzePreachingNotes(o) ==
  LET r == JSONparse(o)
  IN  IF r.kind = "object"
      THEN [hungerLevel |-> OrElse(r.val.hungerLevel, MEDIUM),
            suggestedVerse |-> OrElse(r.val.suggestedVerse, "John 3:16"),
            suggestedNextAction |-> OrElse(r.val.suggestedNextAction,
                                           "Follow up next week with a gospel tract."),
            summary |-> OrElse(r.val.summary, "Conversation completed.")]
      ELSE ParseFailureReview

\* a Prospect
\* (baptism is signifiedForBaptism; assignedTo is assignedToUserId, 0 when the
\* key is absent)
NoProspect == [id |-> 0, aiReview |-> NoReview, followUps |-> <<>>, status |-> "",
               baptism |-> FALSE, assignedTo |-> 0]
\* the record NewOutreach.handleSubmit builds
newProspect(id, review) ==
  [id |-> id, aiReview |-> review, followUps |-> <<>>, status |-> "New",
   baptism |-> FALSE, assignedTo |-> 0]

\* snapshot.docs of query(collection 'prospects', orderBy('timestamp', 'desc')):
\* ids are drawn in order of creation, so the newest has the largest id
RECURSIVE ProspectDocsFrom(_, _)
ProspectDocsFrom(store, n) ==
  IF n < 1 THEN <<>>
  ELSE (IF store[n] = NoProspect THEN <<>> ELSE <<store[n]>>) \o ProspectDocsFrom(store, n - 1)
SnapshotProspects(store) == ProspectDocsFrom(store, MaxProspects)

\* prospects.find(x => x.id === id): index of the first match, 0 if none
RECURSIVE FindById(_, _, _)
FindById(list, id, i) ==
  IF i > Len(list) THEN 0
  ELSE IF list[i].id = id THEN i ELSE FindById(list, id, i + 1)

\* no prospect has been recorded
ProspStart ==
  /\ rProspects = [q \in PIds |-> NoProspect]
  /\ lsProspects = <<>>
  /\ prospects = <<>>
  /\ selectedProspectId = 0
  /\ aiPc = "idle"
  /\ savedClosure = <<>>
  /\ nextPid = 0
  /\ nextNote = 0
  /\ added = [q \in PIds |-> <<>>]

\* the state after the page has loaded on a fresh deployment.  With a
\* password-reset link in the URL (link), the effect of Login.tsx sets mode
\* 'resetConfirm' and loading, and starts verifyPasswordResetCode only
\* `if (auth)` (Login.tsx lines 54-70): without auth nothing clears loading.
AppStartWith(build, conf, ready, invited, link) ==
  /\ loginBuild = build
  /\ configured = conf
  /\ fbReady = ready
  /\ cfgSaved = (conf /\ ready)
  /\ invitedRole = invited
  /\ cloudEnabled = conf
  /\ listening = IF conf /\ ready THEN "remote" ELSE "local"
  /\ user = NoUser
  /\ appLoading = FALSE
  /\ registeredUsers = <<>>
  /\ showTour = FALSE
  /\ permissionError = FALSE
  /\ authUid = 0
  /\ accounts = {}
  /\ inflight = {}
  /\ rUsers = [u \in Uids |-> NoUser]
  /\ lsUsers = <<>>
  /\ lsSession = NoUser
  /\ lsNext = 0
  /\ mode = IF link THEN "resetConfirm" ELSE IF invited # "" THEN "signup" ELSE "login"
  /\ loginPc = IF ~link THEN "idle" ELSE IF ready THEN "reset_verify" ELSE "stuck"
  /\ regUid = 0
  /\ regFirst = FALSE
  /\ edits = 0
  /\ reloads = 0
  /\ ProspStart
  /\ lsCorrupt = {}
  /\ uncaught = FALSE
  /\ syncLog = NoLog /\ isSuccess = FALSE

\* the same for a page opened without a password-reset link
AppStart(build, conf, ready, invited) == AppStartWith(build, conf, ready, invited, FALSE)

(***************************************************************************)
(* The sanitizer's driver: a caller builds a graph, then calls scrub on a  *)
(* value, scrub on the result, and safeStringify on the value.             *)
(***************************************************************************)
NoText == [kind |-> "none", text |-> <<>>]

SanStart ==
  /\ arg = Atom("undef")
  /\ sanPc = "build"
  /\ out = Undefined
  /\ out2 = Undefined
  /\ text = NoText

SanInit ==
  /\ heap \in [NodeIds -> {[kind |-> k, items |-> <<>>] : k \in {"obj", "arr"}}]
  /\ SanStart
  /\ AppStart("Login.tsx", TRUE, TRUE, "")

\* obj[key] = v, or arr.push(v)
AddProp(n, v) ==
  /\ sanPc = "build"
  /\ TotalProps(heap) < MaxProps
  /\ Len(heap[n].items) < Len(KeyNames)
  /\ heap' = [heap EXCEPT ![n].items =
                Append(@, [k |-> IF heap[n].kind = "obj"
                                 THEN KeyNames[Len(heap[n].items) + 1] ELSE "",
                           v |-> v])]
  /\ UNCHANGED <<arg, sanPc, out, out2, text, appVars, prospVars, faultVars>>

CallScrub(v) ==
  /\ sanPc = "build"
  /\ arg' = v
  /\ out' = scrubTop(heap, v)
  /\ sanPc' = "scrubbed"
  /\ UNCHANGED <<heap, out2, text, appVars, prospVars, faultVars>>

CallScrubAgain ==
  /\ sanPc = "scrubbed"
  /\ out2' = scrubTree(out)
  /\ sanPc' = "rescrubbed"
  /\ UNCHANGED <<heap, arg, out, text, appVars, prospVars, faultVars>>

CallSafeStringify ==
  /\ sanPc = "rescrubbed"
  /\ text' = safeStringify(heap, arg)
  /\ sanPc' = "encoded"
  /\ UNCHANGED <<heap, arg, out, out2, appVars, prospVars, faultVars>>

SanNext ==
  \/ \E n \in NodeIds, v \in Values : AddProp(n, v)
  \/ \E v \in Values : CallScrub(v)
  \/ CallScrubAgain
  \/ CallSafeStringify

SpecSanitizer == SanInit /\ [][SanNext]_vars

(***************************************************************************)
(* The identity collaborator as the application sees it                    *)
(***************************************************************************)
\* onAuthStateChanged is called when the signed-in principal changes, if the
\* App effect subscribed (remote branch).  Its callback for a principal awaits
\* getDoc; its callback for null (line 103) runs at once.
ListenerFiresFor(uid) == listening = "remote" /\ authUid # uid
InflightAfterSignIn(uid) == IF ListenerFiresFor(uid) THEN inflight \cup {uid} ELSE inflight
UserAfterSignOut == IF ListenerFiresFor(0) THEN NoUser ELSE user
LoadingAfterSignOut == IF ListenerFiresFor(0) THEN FALSE ELSE appLoading
\* Login is mounted afresh when user becomes null
ModeAfter(u2, m) == IF user # NoUser /\ u2 = NoUser THEN MountMode ELSE m
\* the remote users listener delivers this client's own writes at once
CacheAfterWrite(store2) ==
  IF listening = "remote" THEN SnapshotUsers(store2) ELSE registeredUsers

\* hasSeenTour of a new profile: Login.tsx writes false, part_000 omits the key
NewUserTour == IF loginBuild = "Login.tsx" THEN "F" ELSE "-"

(***************************************************************************)
(* Login: handleAction (remote branch) and handleGoogleLogin               *)
(***************************************************************************)
\* handleAction, mode 'login': signInWithEmailAndPassword
SubmitLogin(e, ok) ==
  /\ LoginShown /\ loginPc = "idle" /\ mode = "login" /\ LoginRemote
  /\ ok /\ e \in accounts
  /\ authUid' = e
  /\ inflight' = InflightAfterSignIn(e)
  /\ loginPc' = "login_getDoc"
  /\ regUid' = e
  /\ UNCHANGED <<loginBuild, configured, fbReady, cfgSaved, invitedRole, cloudEnabled,
                 listening, user, appLoading, registeredUsers, showTour,
                 permissionError, accounts, rUsers, lsUsers, lsSession, lsNext,
                 mode, regFirst, sanVars, faultVars, prospVars, edits, reloads>>

\* the approval test of a login: Login.tsx signs out on a missing profile
\* (lines 158-161), part_000 has no such branch (lines 73-79)
LoginMustSignOut(doc) ==
  IF doc # NoUser THEN doc.status # APPROVED
  ELSE loginBuild = "Login.tsx"

\* handleAction, mode 'login', after getDoc
LoginGetDoc ==
  /\ loginPc = "login_getDoc"
  /\ IF LoginMustSignOut(rUsers[regUid])
     THEN /\ authUid' = 0
          /\ user' = UserAfterSignOut
          /\ appLoading' = LoadingAfterSignOut
     ELSE UNCHANGED <<authUid, user, appLoading>>
  /\ mode' = ModeAfter(user', mode)
  /\ loginPc' = "idle"
  /\ regUid' = 0
  /\ UNCHANGED <<loginBuild, configured, fbReady, cfgSaved, invitedRole, cloudEnabled,
                 listening, registeredUsers, showTour, permissionError, accounts,
                 inflight, rUsers, lsUsers, lsSession, lsNext, regFirst, sanVars, faultVars, prospVars, edits, reloads>>

\* handleAction, mode 'signup': createUserWithEmailAndPassword
SubmitSignup(e) ==
  /\ LoginShown /\ loginPc = "idle" /\ mode = "signup" /\ LoginRemote
  /\ e \notin accounts
  /\ accounts' = accounts \cup {e}
  /\ authUid' = e
  /\ inflight' = InflightAfterSignIn(e)
  /\ loginPc' = "signup_getDocs"
  /\ regUid' = e
  /\ UNCHANGED <<loginBuild, configured, fbReady, cfgSaved, invitedRole, cloudEnabled,
                 listening, user, appLoading, registeredUsers, showTour,
                 permissionError, rUsers, lsUsers, lsSession, lsNext, mode,
                 regFirst, sanVars, faultVars, prospVars, edits, reloads>>

\* getDocs(collection(db, 'users')); isFirstUser = usersSnapshot.empty
RegisterGetDocs ==
  /\ loginPc \in {"signup_getDocs", "google_getDocs"}
  /\ regFirst' = IsEmptyCollection(rUsers)
  /\ loginPc' = IF loginPc = "signup_getDocs" THEN "signup_setDoc" ELSE "google_setDoc"
  /\ UNCHANGED <<loginBuild, configured, fbReady, cfgSaved, invitedRole, cloudEnabled,
                 listening, user, appLoading, registeredUsers, showTour,
                 permissionError, authUid, accounts, inflight, rUsers, lsUsers,
                 lsSession, lsNext, mode, regUid, sanVars, faultVars, prospVars, edits, reloads>>

\* const isFirstUser = usersSnapshot.empty: what the profile is built from is
\* what getDocs found, whatever the collection holds when setDoc runs
isFirstUserMutGuarded(readEmpty, store) == readEmpty /\ IsEmptyCollection(store)
isFirstUser(readEmpty, store) == readEmpty

\* handleAction, mode 'signup': setDoc(newUser), then the messages
SignupSetDoc ==
  /\ loginPc = "signup_setDoc"
  /\ rUsers' = [rUsers EXCEPT ![regUid] =
                  newUser(regUid, regUid, isFirstUser(regFirst, rUsers), NewUserTour)]
  /\ registeredUsers' = CacheAfterWrite(rUsers')
  /\ mode' = IF ~isFirstUser(regFirst, rUsers) /\ LoginShown THEN "login" ELSE mode
  /\ loginPc' = "idle"
  /\ regUid' = 0
  /\ regFirst' = FALSE
  /\ UNCHANGED <<loginBuild, configured, fbReady, cfgSaved, invitedRole, cloudEnabled,
                 listening, user, appLoading, showTour, permissionError, authUid,
                 accounts, inflight, lsUsers, lsSession, lsNext, sanVars, faultVars, prospVars, edits, reloads>>

\* handleGoogleLogin: signInWithPopup (the provider creates the account)
GoogleSubmit(e) ==
  /\ loginBuild = "Login.tsx"
  /\ LoginShown /\ loginPc = "idle" /\ configured /\ fbReady
  /\ accounts' = accounts \cup {e}
  /\ authUid' = e
  /\ inflight' = InflightAfterSignIn(e)
  /\ loginPc' = "google_getDoc"
  /\ regUid' = e
  /\ UNCHANGED <<loginBuild, configured, fbReady, cfgSaved, invitedRole, cloudEnabled,
                 listening, user, appLoading, registeredUsers, showTour,
                 permissionError, rUsers, lsUsers, lsSession, lsNext, mode,
                 regFirst, sanVars, faultVars, prospVars, edits, reloads>>

\* handleGoogleLogin after getDoc: an existing profile is tested for approval,
\* a missing one starts the registration
GoogleGetDoc ==
  /\ loginPc = "google_getDoc"
  /\ IF rUsers[regUid] = NoUser
     THEN /\ loginPc' = "google_getDocs"
          /\ UNCHANGED <<authUid, user, appLoading>>
     ELSE /\ loginPc' = "idle"
          /\ IF rUsers[regUid].status # APPROVED
             THEN /\ authUid' = 0
                  /\ user' = UserAfterSignOut
                  /\ appLoading' = LoadingAfterSignOut
             ELSE UNCHANGED <<authUid, user, appLoading>>
  /\ mode' = ModeAfter(user', mode)
  /\ regUid' = IF loginPc' = "idle" THEN 0 ELSE regUid
  /\ UNCHANGED <<loginBuild, configured, fbReady, cfgSaved, invitedRole, cloudEnabled,
                 listening, registeredUsers, showTour, permissionError, accounts,
                 inflight, rUsers, lsUsers, lsSession, lsNext, regFirst, sanVars, faultVars, prospVars, edits, reloads>>

\* a record has a field whose value is undefined
\* (id and email are numbers here, and always defined)
HasUndefined(d) == \E f \in DOMAIN d \ {"id", "email"} : d[f] = "undefined"

\* the newUser of handleGoogleLogin, as handed to setDoc unsanitized: it
\* carries photoUrl: firebaseUser.photoURL || undefined (line 109), a key the
\* profiles of this model do not keep otherwise
GoogleNewUser(id, isFirst, photo) ==
  Spread(newUser(id, id, isFirst, "F"),
         [photoUrl |-> IF photo THEN "url" ELSE "undefined"])

\* handleGoogleLogin: setDoc(userDocRef, newUser).  The document store
\* rejects a field whose value is undefined, so without a photo nothing is
\* written and the catch block runs.
GoogleSetDoc(photo) ==
  /\ loginPc = "google_setDoc"
  /\ loginPc' = "idle"
  /\ IF ~HasUndefined(GoogleNewUser(regUid, regFirst, photo))
     THEN /\ rUsers' = [rUsers EXCEPT ![regUid] =
                          newUser(regUid, regUid, isFirstUser(regFirst, rUsers), "F")]
          /\ registeredUsers' = CacheAfterWrite(rUsers')
          /\ IF ~isFirstUser(regFirst, rUsers)
             THEN /\ authUid' = 0
                  /\ user' = UserAfterSignOut
                  /\ appLoading' = LoadingAfterSignOut
                  /\ mode' = IF user' = NoUser /\ ~appLoading' THEN "login" ELSE mode
             ELSE UNCHANGED <<authUid, user, appLoading, mode>>
     ELSE UNCHANGED <<rUsers, registeredUsers, authUid, user, appLoading, mode>>
  /\ regUid' = 0
  /\ regFirst' = FALSE
  /\ UNCHANGED <<loginBuild, configured, fbReady, cfgSaved, invitedRole, cloudEnabled,
                 listening, showTour, permissionError, accounts, inflight, lsUsers,
                 lsSession, lsNext, sanVars, faultVars, prospVars, edits, reloads>>

\* a registration by email made in another browser (Login.tsx handleAction,
\* mode 'signup', lines 163-177), from its getDocs to its setDoc: this client
\* learns of the profile with the next snapshot
PeerRegister(uid) ==
  /\ configured /\ fbReady
  /\ uid \notin accounts
  /\ rUsers[uid] = NoUser
  /\ accounts' = accounts \cup {uid}
  /\ rUsers' = [rUsers EXCEPT ![uid] =
                  newUser(uid, uid, isFirstUser(IsEmptyCollection(rUsers), rUsers), "F")]
  /\ UNCHANGED <<loginBuild, configured, fbReady, cfgSaved, invitedRole, cloudEnabled,
                 listening, user, appLoading, registeredUsers, showTour,
                 permissionError, authUid, inflight, lsUsers, lsSession, lsNext,
                 mode, loginPc, regUid, regFirst, sanVars, faultVars, prospVars, edits,
                 reloads>>

\* an await of the handler in flight rejects (network, permission): catch, finally
LoginThrow ==
  /\ loginPc \notin {"idle", "stuck"}
  /\ loginPc' = "idle"
  /\ regUid' = 0
  /\ regFirst' = FALSE
  /\ UNCHANGED <<loginBuild, configured, fbReady, cfgSaved, invitedRole, cloudEnabled,
                 listening, user, appLoading, registeredUsers, showTour,
                 permissionError, authUid, accounts, inflight, rUsers, lsUsers,
                 lsSession, lsNext, mode, sanVars, faultVars, prospVars, edits, reloads>>

\* Login.tsx: loading (the submit button and the Google button are disabled
\* while it is true); it is true from a handler's setLoading(true) to its
\* setLoading(false)
LoginLoading == loginPc # "idle"

\* verifyPasswordResetCode settles: then and catch both call setLoading(false)
VerifyResetCode(ok) ==
  /\ loginPc = "reset_verify"
  /\ loginPc' = "idle"
  /\ UNCHANGED <<loginBuild, configured, fbReady, cfgSaved, invitedRole, cloudEnabled,
                 listening, user, appLoading, registeredUsers, showTour,
                 permissionError, authUid, accounts, inflight, rUsers, lsUsers,
                 lsSession, lsNext, mode, regUid, regFirst, sanVars, faultVars,
                 prospVars, edits, reloads>>

\* the link "Forgot password?" of the login form
ForgotLink ==
  /\ loginBuild = "Login.tsx"
  /\ LoginShown /\ loginPc = "idle" /\ mode = "login"
  /\ mode' = "forgotPassword"
  /\ UNCHANGED <<loginBuild, configured, fbReady, cfgSaved, invitedRole, cloudEnabled,
                 listening, user, appLoading, registeredUsers, showTour,
                 permissionError, authUid, accounts, inflight, rUsers, lsUsers,
                 lsSession, lsNext, loginPc, regUid, regFirst, sanVars, faultVars,
                 prospVars, edits, reloads>>

\* handleAction in mode 'forgotPassword' or 'resetConfirm': setLoading(true),
\* then handleForgotPassword or handleConfirmReset up to its await.  A form
\* that fails the handler's validation (valid = FALSE) ends there with
\* setLoading(false); without auth the try block awaits nothing and the
\* finally clears loading.
SubmitReset(valid) ==
  /\ loginBuild = "Login.tsx"
  /\ LoginShown /\ loginPc = "idle" /\ mode \in {"forgotPassword", "resetConfirm"}
  /\ loginPc' = IF valid /\ fbReady
                THEN (IF mode = "forgotPassword" THEN "forgot_send" ELSE "reset_confirm")
                ELSE "idle"
  /\ UNCHANGED <<loginBuild, configured, fbReady, cfgSaved, invitedRole, cloudEnabled,
                 listening, user, appLoading, registeredUsers, showTour,
                 permissionError, authUid, accounts, inflight, rUsers, lsUsers,
                 lsSession, lsNext, mode, regUid, regFirst, sanVars, faultVars,
                 prospVars, edits, reloads>>

\* sendPasswordResetEmail or confirmPasswordReset settles: catch, finally;
\* a confirmed reset returns to mode 'login'
ResetSettles(ok) ==
  /\ loginPc \in {"forgot_send", "reset_confirm"}
  /\ loginPc' = "idle"
  /\ mode' = IF ok /\ loginPc = "reset_confirm" THEN "login" ELSE mode
  /\ UNCHANGED <<loginBuild, configured, fbReady, cfgSaved, invitedRole, cloudEnabled,
                 listening, user, appLoading, registeredUsers, showTour,
                 permissionError, authUid, accounts, inflight, rUsers, lsUsers,
                 lsSession, lsNext, regUid, regFirst, sanVars, faultVars,
                 prospVars, edits, reloads>>

\* the link under the form: setMode(mode === 'login' ? 'signup' : 'login')
ToggleMode ==
  /\ LoginShown /\ loginPc = "idle"
  /\ mode' = IF mode = "login" THEN "signup" ELSE "login"
  /\ UNCHANGED <<loginBuild, configured, fbReady, cfgSaved, invitedRole, cloudEnabled,
                 listening, user, appLoading, registeredUsers, showTour,
                 permissionError, authUid, accounts, inflight, rUsers, lsUsers,
                 lsSession, lsNext, loginPc, regUid, regFirst, sanVars, faultVars, prospVars, edits, reloads>>

(***************************************************************************)
(* Login (part_000): the local branch of handleAction, with App.onLocalLogin*)
(***************************************************************************)
\* found && found.status === UserStatus.APPROVED
localMayLogin(found) == found # NoUser /\ found.status = APPROVED

\* the passwords typed into the form (the field is required)
Passwords == {"pw1", "pw2"}

\* the password kept with a local profile: the newUser of the local sign-up
\* has no password key (part_000 lines 125-132)
storedPassword(rec) == "undefined"

\* JSON.parse of the users key (line 117) raises when the content is not
\* parsable; the timer's callback has no handler for it
localUsersReadThrows == "users" \in lsCorrupt

\* handleAction, mode 'login', local branch (the timer's callback), for the
\* email and the password typed.  The password is not read.  When JSON.parse
\* raises, the callback ends there and loading stays true.
LocalLogin(e, pw) ==
  /\ loginBuild = "part_000"
  /\ LoginShown /\ loginPc = "idle" /\ mode = "login" /\ ~LoginRemote
  /\ IF localUsersReadThrows
     THEN /\ loginPc' = "stuck"
          /\ uncaught' = TRUE
          /\ UNCHANGED <<syncLog, isSuccess>>
          /\ UNCHANGED <<user, lsSession, showTour, lsCorrupt>>
     ELSE LET i == FindByEmail(lsUsers, e, 1)
              found == IF i = 0 THEN NoUser ELSE lsUsers[i]
          IN  /\ localMayLogin(found)
              /\ user' = found
              /\ lsSession' = found
              /\ lsCorrupt' = lsCorrupt \ {"session"}
              /\ showTour' = IF found.tour = "F" THEN TRUE ELSE showTour
              /\ UNCHANGED <<loginPc, uncaught, syncLog, isSuccess>>
  /\ UNCHANGED <<loginBuild, configured, fbReady, cfgSaved, invitedRole, cloudEnabled,
                 listening, appLoading, registeredUsers, permissionError, authUid,
                 accounts, inflight, rUsers, lsUsers, lsNext, mode,
                 regUid, regFirst, sanVars, prospVars, edits, reloads>>

\* handleAction, mode 'signup', local branch (the timer's callback)
LocalSignup(e) ==
  /\ loginBuild = "part_000"
  /\ LoginShown /\ loginPc = "idle" /\ mode = "signup" /\ ~LoginRemote
  /\ lsNext < MaxLocalUsers
  /\ e = lsNext + 1          \* every registrant has an address of his own
  /\ IF localUsersReadThrows
     THEN /\ loginPc' = "stuck"
          /\ uncaught' = TRUE
          /\ UNCHANGED <<syncLog, isSuccess>>
          /\ UNCHANGED <<lsUsers, lsNext, user, lsSession, mode, lsCorrupt>>
     ELSE LET isFirst == Len(lsUsers) = 0
              nu == newUser(-(lsNext + 1), e, isFirst, "-")
          IN  /\ lsUsers' = Append(lsUsers, nu)
              /\ lsNext' = lsNext + 1
              /\ IF isFirst
                 THEN /\ user' = nu
                      /\ lsSession' = nu
                      /\ lsCorrupt' = lsCorrupt \ {"session"}
                      /\ UNCHANGED mode
                 ELSE /\ mode' = "login"
                      /\ UNCHANGED <<user, lsSession, lsCorrupt>>
              /\ UNCHANGED <<loginPc, uncaught, syncLog, isSuccess>>
  /\ UNCHANGED <<loginBuild, configured, fbReady, cfgSaved, invitedRole, cloudEnabled,
                 listening, appLoading, registeredUsers, showTour, permissionError,
                 authUid, accounts, inflight, rUsers, regUid, regFirst,
                 sanVars, prospVars, edits, reloads>>

(***************************************************************************)
(* App: the auth-state callback, logout, reload                            *)
(***************************************************************************)
\* userData.status === UserStatus.APPROVED (line 89)
sessionMayStartMutAny(d) == TRUE
sessionMayStart(d) == d.status = APPROVED

\* the onAuthStateChanged callback for principal uid, from the resolution of
\* its getDoc to its end (lines 86-104)
AuthCallback(uid) ==
  /\ uid \in inflight
  /\ inflight' = inflight \ {uid}
  /\ LET d == rUsers[uid]
     IN  IF d # NoUser /\ sessionMayStart(d)
         THEN /\ user' = d
              /\ showTour' = IF d.tour = "F" THEN TRUE ELSE showTour
              /\ UNCHANGED authUid
         ELSE /\ user' = NoUser
              /\ authUid' = IF d # NoUser THEN 0 ELSE authUid
              /\ UNCHANGED showTour
  /\ appLoading' = FALSE
  /\ mode' = ModeAfter(user', mode)
  /\ UNCHANGED <<loginBuild, configured, fbReady, cfgSaved, invitedRole, cloudEnabled,
                 listening, registeredUsers, permissionError, accounts, rUsers,
                 lsUsers, lsSession, lsNext, loginPc, regUid, regFirst, sanVars, faultVars, prospVars, edits, reloads>>

\* the same callback when getDoc rejects (lines 99-102, 104)
AuthCallbackFail(uid) ==
  /\ uid \in inflight
  /\ inflight' = inflight \ {uid}
  /\ permissionError' = TRUE
  /\ appLoading' = FALSE
  /\ UNCHANGED <<loginBuild, configured, fbReady, cfgSaved, invitedRole, cloudEnabled,
                 listening, user, registeredUsers, showTour, authUid, accounts,
                 rUsers, lsUsers, lsSession, lsNext, mode, loginPc, regUid,
                 regFirst, sanVars, faultVars, prospVars, edits, reloads>>

\* the main view (Sidebar, tabs) is rendered
AppShown == ~appLoading /\ user # NoUser

\* handleLogout
Logout ==
  /\ AppShown
  /\ authUid' = IF cloudEnabled /\ fbReady THEN 0 ELSE authUid
  /\ user' = NoUser
  /\ lsSession' = NoUser
  /\ lsCorrupt' = lsCorrupt \ {"session"}
  /\ mode' = MountMode
  /\ UNCHANGED <<loginBuild, configured, fbReady, cfgSaved, invitedRole, cloudEnabled,
                 listening, appLoading, registeredUsers, showTour, permissionError,
                 accounts, inflight, rUsers, lsUsers, lsNext, loginPc, regUid,
                 regFirst, sanVars, uncaught, syncLog, isSuccess, prospVars, edits, reloads>>

\* the page is loaded again: firebase.ts is evaluated (lines 35-37, 66-68),
\* App starts from its initial state and its effect runs (lines 77-157); the
\* signed-in principal persists in the browser.  initFirebase yields handles
\* for a configuration it has saved, and fails again for the built-in one if
\* it failed for it before.
\* the unparsable keys after the effect has run: its local branch reads the
\* three keys, each in a try whose catch removes the key (lines 135-154); its
\* remote branch reads none.  A removed key reads as absent: no session, no
\* prospects, no users.
keysAfterLoad(branch, keys) == IF branch = "local" THEN {} ELSE keys

Reload ==
  /\ reloads < MaxReloads
  /\ reloads' = reloads + 1
  /\ configured' = (configured \/ cfgSaved)
  /\ fbReady' = cfgSaved
  /\ cloudEnabled' = configured'
  /\ listening' = IF cloudEnabled' /\ fbReady' THEN "remote" ELSE "local"
  /\ IF listening' = "remote"
     THEN /\ user' = NoUser
          /\ showTour' = FALSE
          /\ appLoading' = (authUid # 0)
          /\ inflight' = IF authUid # 0 THEN {authUid} ELSE {}
          /\ registeredUsers' = SnapshotUsers(rUsers)
          /\ prospects' = SnapshotProspects(rProspects)
     ELSE /\ user' = lsSession
          /\ showTour' = (lsSession # NoUser /\ lsSession.tour = "F")
          /\ appLoading' = FALSE
          /\ inflight' = {}
          /\ registeredUsers' = lsUsers
          /\ prospects' = lsProspects
  /\ permissionError' = FALSE
  /\ mode' = MountMode
  /\ loginPc' = "idle"
  /\ regUid' = 0
  /\ regFirst' = FALSE
  /\ selectedProspectId' = 0
  /\ aiPc' = "idle"
  /\ savedClosure' = <<>>
  /\ lsCorrupt' = keysAfterLoad(listening', lsCorrupt)
  /\ uncaught' = FALSE
  /\ syncLog' = NoLog
  /\ isSuccess' = FALSE
  /\ UNCHANGED <<loginBuild, cfgSaved, invitedRole, authUid, accounts, rUsers,
                 lsUsers, lsSession, lsNext, sanVars, edits, rProspects,
                 lsProspects, nextPid, nextNote, added>>

\* what the subscriptions of the effect are attached to after initFirebase:
\* the effect (deps [cloudEnabled]) subscribes anew only when cloudEnabled
\* changed; otherwise listeners of the deleted app are gone, local data stays
listeningAfterConnectMutRerun(rerun, l) == "remote"
listeningAfterConnect(rerun, l) ==
  IF rerun THEN "remote" ELSE IF l = "remote" THEN "dead" ELSE l

\* CloudSetup.handleVerifyFirebase: `await onConnect(extractedConfig);
\* setIsSuccess(true)` whatever initFirebase returned; the component that
\* holds the flag is still mounted only when the tab was not changed
successAfterConnect(ok) == ~ok

\* handleConnectCloud with a configuration CloudSetup accepted.  initFirebase
\* deletes the running app (its listeners end with it), assigns the new
\* handles, then awaits setPersistence: when that rejects (ok = FALSE) the
\* handles stay assigned, nothing is saved and the result is null.
\* setCloudEnabled(true) re-runs the effect only if cloudEnabled was false.
\* handleVerifyFirebase of CloudSetup awaits this handler, which returns
\* nothing and never throws, and then calls setIsSuccess(true).  After a
\* successful initFirebase setActiveTab('dashboard') has replaced CloudSetup
\* in the same render, so only a failed one leaves the screen on display.
\* The Cloud tab is opened (isSuccess = false at its mount) to submit.
ConnectCloud(ok) ==
  /\ AppShown
  /\ isSuccess' = successAfterConnect(ok)
  /\ fbReady' = TRUE
  /\ cfgSaved' = (cfgSaved \/ ok)
  /\ cloudEnabled' = (cloudEnabled \/ ok)
  /\ listening' = listeningAfterConnect(cloudEnabled' # cloudEnabled, listening)
  /\ IF cloudEnabled' # cloudEnabled
     THEN /\ registeredUsers' = SnapshotUsers(rUsers)
          /\ prospects' = SnapshotProspects(rProspects)
          /\ permissionError' = FALSE
          /\ IF authUid # 0
             THEN /\ inflight' = {authUid}
                  /\ UNCHANGED <<user, mode>>
             ELSE /\ inflight' = {}
                  /\ user' = NoUser
                  /\ mode' = MountMode
     ELSE /\ inflight' = {}
          /\ UNCHANGED <<user, mode, registeredUsers, permissionError, prospects>>
  /\ UNCHANGED <<loginBuild, configured, invitedRole, appLoading, showTour, authUid,
                 accounts, rUsers, lsUsers, lsSession, lsNext, loginPc, regUid,
                 regFirst, sanVars, lsCorrupt, uncaught, syncLog, edits, reloads, rProspects, lsProspects,
                 selectedProspectId, aiPc, savedClosure, nextPid, nextNote, added>>

\* Sidebar: setActiveTab of another tab unmounts CloudSetup
LeaveCloudTab ==
  /\ AppShown /\ isSuccess
  /\ isSuccess' = FALSE
  /\ UNCHANGED <<sanVars, lsCorrupt, uncaught, syncLog, appVars, prospVars>>

(***************************************************************************)
(* App: updateUserStatus, handleUpdateProfile, handleCompleteTour          *)
(***************************************************************************)
Roles == {TEAM_MEMBER, ADMIN, SUPER_ADMIN}
TeamNames == {"t1"}
ProfileNames == {"n1"}

\* the argument records TeamDirectory passes: { status, role, ...additionalUpdates }
\* from the Approve button, the role select and handleSaveTeam
StatusRequests(target) ==
  (IF target.status = PENDING
   THEN {[status |-> APPROVED, role |-> "undefined"]} ELSE {})
  \cup {[status |-> APPROVED, role |-> r] : r \in Roles \ {target.role}}
  \cup {[status |-> APPROVED, role |-> "undefined", team |-> t] : t \in TeamNames}

\* TeamDirectory.canEdit
canEditMutAnyRole(currentUser, targetUser) == targetUser.id # currentUser.id
canEdit(currentUser, targetUser) ==
  IF currentUser.role = SUPER_ADMIN THEN targetUser.id # currentUser.id ELSE FALSE

\* updateUserStatus(userId, status, role, additionalUpdates), called from the
\* row of registeredUsers[i] in TeamDirectory
UpdateUserStatus(i, req) ==
  /\ AppShown
  /\ edits < MaxEdits
  /\ edits' = edits + 1
  /\ i \in 1..Len(registeredUsers)
  /\ canEdit(user, registeredUsers[i])
  /\ req \in StatusRequests(registeredUsers[i])
  /\ LET userId == registeredUsers[i].id
         data == scrubFlat(req)
     IN  IF AppRemote
         THEN /\ rUsers' = updateDoc(rUsers, userId, data)
              /\ registeredUsers' = CacheAfterWrite(rUsers')
              /\ UNCHANGED lsUsers
         ELSE /\ registeredUsers' = MapMerge(registeredUsers, userId, data)
              /\ lsUsers' = registeredUsers'
              /\ UNCHANGED rUsers
  /\ lsCorrupt' = IF AppRemote THEN lsCorrupt ELSE lsCorrupt \ {"users"}
  /\ UNCHANGED <<loginBuild, configured, fbReady, cfgSaved, invitedRole, cloudEnabled,
                 listening, user, appLoading, showTour, permissionError, authUid,
                 accounts, inflight, lsSession, lsNext, mode, loginPc, regUid,
                 regFirst, sanVars, uncaught, syncLog, isSuccess, prospVars, reloads>>

\* handleUpdateProfile rejects before it has written anything: updateDoc of a
\* document that does not exist (line 195), JSON.parse of an unparsable users
\* key (line 198, outside any try)
UpdateProfileThrows ==
  IF AppRemote
  THEN ~(user.id \in DOMAIN rUsers /\ rUsers[user.id] # NoUser)
  ELSE "users" \in lsCorrupt

\* the body of handleUpdateProfile(updates)
UpdateProfile(updates) ==
  LET cleanUpdates == scrubFlat(updates)
      updatedUser == Spread(user, cleanUpdates)
  IN  IF UpdateProfileThrows
      THEN UNCHANGED <<rUsers, registeredUsers, user, lsUsers, lsSession, lsCorrupt>>
      ELSE IF AppRemote
      THEN /\ rUsers' = updateDoc(rUsers, user.id, cleanUpdates)
           /\ registeredUsers' = CacheAfterWrite(rUsers')
           /\ user' = updatedUser
           /\ UNCHANGED <<lsUsers, lsSession, lsCorrupt>>
      ELSE /\ lsUsers' = MapReplace(lsUsers, user.id, updatedUser)
           /\ lsSession' = updatedUser
           /\ lsCorrupt' = lsCorrupt \ {"session"}
           /\ registeredUsers' = lsUsers'
           /\ user' = updatedUser
           /\ UNCHANGED rUsers

\* UserProfile.handleSubmit -> handleUpdateProfile({ name, phone, photoUrl });
\* its catch reports a rejection ("Failed to update profile.")
HandleUpdateProfile(nm) ==
  /\ AppShown
  /\ edits < MaxEdits
  /\ edits' = edits + 1
  /\ nm # user.name
  /\ UpdateProfile([name |-> nm])
  /\ UNCHANGED <<loginBuild, configured, fbReady, cfgSaved, invitedRole, cloudEnabled,
                 listening, appLoading, showTour, permissionError, authUid, accounts,
                 inflight, lsNext, mode, loginPc, regUid, regFirst, sanVars, uncaught, syncLog, isSuccess,
                 prospVars, reloads>>

\* handleCompleteTour: the promise of handleUpdateProfile is dropped, so its
\* rejection is handled nowhere
HandleCompleteTour ==
  /\ AppShown /\ showTour
  /\ edits < MaxEdits
  /\ edits' = edits + 1
  /\ showTour' = FALSE
  /\ UpdateProfile([tour |-> "T"])
  /\ uncaught' = (uncaught \/ UpdateProfileThrows)
  /\ UNCHANGED <<syncLog, isSuccess>>
  /\ UNCHANGED <<loginBuild, configured, fbReady, cfgSaved, invitedRole, cloudEnabled,
                 listening, appLoading, permissionError, authUid, accounts, inflight,
                 lsNext, mode, loginPc, regUid, regFirst, sanVars, prospVars, reloads>>

\* the users listener delivers a snapshot (lines 120-124)
UsersSnapshot ==
  /\ listening = "remote"
  /\ registeredUsers # SnapshotUsers(rUsers) \/ permissionError
  /\ registeredUsers' = SnapshotUsers(rUsers)
  /\ permissionError' = FALSE
  /\ UNCHANGED <<loginBuild, configured, fbReady, cfgSaved, invitedRole, cloudEnabled,
                 listening, user, appLoading, showTour, authUid, accounts, inflight,
                 rUsers, lsUsers, lsSession, lsNext, mode, loginPc, regUid,
                 regFirst, sanVars, faultVars, prospVars, edits, reloads>>

\* a profile's status is set from outside this client: the store is shared,
\* and Rejected is a status no control of the application writes
ExternalSetStatus(u, s) ==
  /\ rUsers[u] # NoUser
  /\ edits < MaxEdits
  /\ edits' = edits + 1
  /\ rUsers[u].status # s
  /\ rUsers' = [rUsers EXCEPT ![u].status = s]
  /\ UNCHANGED <<loginBuild, configured, fbReady, cfgSaved, invitedRole, cloudEnabled,
                 listening, user, appLoading, registeredUsers, showTour,
                 permissionError, authUid, accounts, inflight, lsUsers, lsSession,
                 lsNext, mode, loginPc, regUid, regFirst, sanVars, faultVars, prospVars, reloads>>

(***************************************************************************)
(* App: addProspect, updateProspect; NewOutreach; ProspectDetail           *)
(***************************************************************************)
\* the new prospects listener delivers this client's own writes at once
ProspectsAfterWrite(store2) ==
  IF listening = "remote" THEN SnapshotProspects(store2) ELSE prospects

\* setDoc(doc(fbDb, 'prospects', id), data): the document is replaced
setDocProspect(store, rec) == [store EXCEPT ![rec.id] = rec]
\* addProspect, local branch: [data, ...prospects], with the prospects of the
\* render the function was created in
addLocal(closure, data) == <<data>> \o closure
\* updateProspect, local branch: prospects.map(x => x.id === id ? data : x)
updateLocal(list, updated) ==
  [i \in 1..Len(list) |-> IF list[i].id = updated.id THEN updated ELSE list[i]]

\* NewOutreach.handleSubmit up to its await; the onSave it will call is the
\* addProspect of the current render
SubmitOutreach ==
  /\ AppShown /\ selectedProspectId = 0
  /\ aiPc = "idle"
  /\ nextPid < MaxProspects
  /\ aiPc' = "awaiting"
  /\ savedClosure' = prospects
  /\ UNCHANGED <<sanVars, faultVars, appVars, rProspects, lsProspects, prospects,
                 selectedProspectId, nextPid, nextNote, added>>

\* NewOutreach.handleSubmit from the end of analyzePreachingNotes: a rejected
\* request leaves analyzePreachingNotes at line 10, outside its try, and
\* reaches the catch of handleSubmit, which reports and saves nothing;
\* otherwise onSave(newProspect) is addProspect (lines 212-222)
AIResolve(o) ==
  /\ aiPc = "awaiting"
  /\ aiPc' = "idle"
  /\ savedClosure' = <<>>
  /\ IF o = "rejected"
     THEN UNCHANGED <<rProspects, lsProspects, prospects, nextPid>>
     ELSE LET data == newProspect(nextPid + 1, analyzePreachingNotes(o))
          IN  /\ nextPid' = nextPid + 1
              /\ IF AppRemote
                 THEN /\ rProspects' = setDocProspect(rProspects, data)
                      /\ prospects' = ProspectsAfterWrite(rProspects')
                      /\ UNCHANGED lsProspects
                 ELSE /\ lsProspects' = addLocal(savedClosure, data)
                      /\ prospects' = lsProspects'
                      /\ UNCHANGED rProspects
  /\ lsCorrupt' = IF o # "rejected" /\ ~AppRemote
                  THEN lsCorrupt \ {"prospects"} ELSE lsCorrupt
  /\ UNCHANGED <<sanVars, uncaught, syncLog, isSuccess, appVars, selectedProspectId, nextNote, added>>

\* onSelectProspect from Dashboard or ProspectList
SelectProspect(id) ==
  /\ AppShown /\ selectedProspectId = 0
  /\ FindById(prospects, id, 1) # 0
  /\ selectedProspectId' = id
  /\ UNCHANGED <<sanVars, faultVars, appVars, rProspects, lsProspects, prospects, aiPc,
                 savedClosure, nextPid, nextNote, added>>

\* onBack, or a tab of the Sidebar
Back ==
  /\ AppShown /\ selectedProspectId # 0
  /\ selectedProspectId' = 0
  /\ UNCHANGED <<sanVars, faultVars, appVars, rProspects, lsProspects, prospects, aiPc,
                 savedClosure, nextPid, nextNote, added>>

\* ProspectDetail is rendered for the cached prospect with the selected id
DetailShown == AppShown /\ selectedProspectId # 0
                 /\ FindById(prospects, selectedProspectId, 1) # 0
ShownProspect == prospects[FindById(prospects, selectedProspectId, 1)]

\* [newFollowUp, ...prospect.followUps]
withFollowUp(list, n) == <<n>> \o list

\* updateProspect(updatedProspect)
updateProspect(updated) ==
  IF AppRemote
  THEN /\ rProspects' = setDocProspect(rProspects, updated)
       /\ prospects' = ProspectsAfterWrite(rProspects')
       /\ UNCHANGED <<lsProspects, lsCorrupt>>
  ELSE /\ prospects' = updateLocal(prospects, updated)
       /\ lsProspects' = prospects'
       /\ lsCorrupt' = lsCorrupt \ {"prospects"}
       /\ UNCHANGED rProspects

\* ProspectDetail.handleAddFollowUp
AddFollowUp ==
  /\ DetailShown
  /\ nextNote < MaxNotes
  /\ nextNote' = nextNote + 1
  /\ added' = [added EXCEPT ![selectedProspectId] = Append(@, nextNote + 1)]
  /\ updateProspect([ShownProspect EXCEPT
                       !.followUps = withFollowUp(@, nextNote + 1),
                       !.status = "Followed Up"])
  /\ UNCHANGED <<sanVars, uncaught, syncLog, isSuccess, appVars, selectedProspectId, aiPc, savedClosure, nextPid>>

\* nextStatusMap of handleToggleStatus
nextStatusMutSkip(st) ==
  CASE st = "New" -> "Member"
    [] st = "Followed Up" -> "Member"
    [] st = "Member" -> "New"
nextStatus(st) ==
  CASE st = "New" -> "Followed Up"
    [] st = "Followed Up" -> "Member"
    [] st = "Member" -> "New"

\* ProspectDetail.handleToggleStatus
ToggleStatus ==
  /\ DetailShown
  /\ updateProspect([ShownProspect EXCEPT !.status = nextStatus(@)])
  /\ UNCHANGED <<sanVars, uncaught, syncLog, isSuccess, appVars, selectedProspectId, aiPc, savedClosure, nextPid,
                 nextNote, added>>

\* ProspectDetail.handleToggleBaptism
ToggleBaptism ==
  /\ DetailShown
  /\ updateProspect([ShownProspect EXCEPT !.baptism = ~@])
  /\ UNCHANGED <<sanVars, uncaught, syncLog, isSuccess, appVars, selectedProspectId, aiPc, savedClosure, nextPid,
                 nextNote, added>>

\* ProspectDetail.canAssign
canAssign == user.role = ADMIN \/ user.role = SUPER_ADMIN

\* the values of the assignment select: '' (0) and the Approved users of allUsers
AssignOptions ==
  {0} \cup {registeredUsers[i].id :
              i \in {j \in 1..Len(registeredUsers) : registeredUsers[j].status = APPROVED}}

\* ProspectDetail.handleAssign(userId), from the select's change event
Assign(userId) ==
  /\ DetailShown
  /\ canAssign
  /\ userId \in AssignOptions
  /\ userId # ShownProspect.assignedTo
  /\ updateProspect([ShownProspect EXCEPT !.assignedTo = userId])
  /\ UNCHANGED <<sanVars, uncaught, syncLog, isSuccess, appVars, selectedProspectId, aiPc, savedClosure, nextPid,
                 nextNote, added>>

\* the prospects listener delivers a snapshot (lines 109-113)
ProspectsSnapshot ==
  /\ listening = "remote"
  /\ prospects # SnapshotProspects(rProspects)
  /\ prospects' = SnapshotProspects(rProspects)
  /\ permissionError' = FALSE
  /\ UNCHANGED <<loginBuild, configured, fbReady, cfgSaved, invitedRole, cloudEnabled,
                 listening, user, appLoading, registeredUsers, showTour, authUid,
                 accounts, inflight, rUsers, lsUsers, lsSession, lsNext, mode,
                 loginPc, regUid, regFirst, edits, reloads, sanVars, faultVars, rProspects,
                 lsProspects, selectedProspectId, aiPc, savedClosure, nextPid,
                 nextNote, added>>

\* the two subscriptions of the effect, and the error codes a subscription
\* reports
Listeners == {"prospects", "users"}
ErrorCodes == {"permission-denied", "unavailable"}

\* if (error.code === 'permission-denied') setPermissionError(true)
flagAfterErrorMutIgnore(flag, code) == flag
flagAfterError(flag, code) == IF code = "permission-denied" THEN TRUE ELSE flag

\* console.error("Prospects sync error:", error) / ("Users sync error:", error)
syncMessage(l) == IF l = "prospects" THEN "Prospects sync error:" ELSE "Users sync error:"

\* the error callback of the prospects listener (lines 114-117) or of the
\* users listener (lines 125-128): it logs the error and sets the flag for
\* permission-denied; it sets no other state and nothing escapes it
SyncError(l, code) ==
  /\ listening = "remote"
  /\ syncLog' = [msg |-> syncMessage(l), code |-> code]
  /\ UNCHANGED isSuccess
  /\ permissionError' = flagAfterError(permissionError, code)
  /\ UNCHANGED <<loginBuild, configured, fbReady, cfgSaved, invitedRole, cloudEnabled,
                 listening, user, appLoading, registeredUsers, showTour, authUid,
                 accounts, inflight, rUsers, lsUsers, lsSession, lsNext, mode,
                 loginPc, regUid, regFirst, edits, reloads, sanVars, lsCorrupt,
                 uncaught, prospVars>>

\* handleAddFollowUp and updateProspect run in the session of another user of
\* the same deployment, on that session's current copy of the prospect: the
\* document is replaced in the shared store and this session learns of it
\* with the next snapshot
PeerAddFollowUp(id) ==
  /\ rProspects[id] # NoProspect
  /\ nextNote < MaxNotes
  /\ nextNote' = nextNote + 1
  /\ added' = [added EXCEPT ![id] = Append(@, nextNote + 1)]
  /\ rProspects' = [rProspects EXCEPT ![id] =
                      [@ EXCEPT !.followUps = withFollowUp(@, nextNote + 1),
                                !.status = "Followed Up"]]
  /\ UNCHANGED <<sanVars, faultVars, appVars, lsProspects, prospects, selectedProspectId, aiPc,
                 savedClosure, nextPid>>

\* a signed-in session, as registration and login leave it: the first
\* registrant of a remote deployment, or of a local one
ProspInit ==
  /\ heap = [n \in NodeIds |-> [kind |-> "obj", items |-> <<>>]]
  /\ SanStart
  /\ ProspStart
  /\ configured = TRUE /\ cloudEnabled = TRUE /\ invitedRole = ""
  /\ appLoading = FALSE /\ permissionError = FALSE /\ inflight = {}
  /\ loginPc = "idle" /\ regUid = 0 /\ regFirst = FALSE
  /\ edits = 0 /\ reloads = 0
  /\ lsCorrupt = {} /\ uncaught = FALSE /\ syncLog = NoLog /\ isSuccess = FALSE
  /\ \/ /\ loginBuild = "Login.tsx" /\ fbReady = TRUE /\ cfgSaved = TRUE
        /\ listening = "remote" /\ mode = "login"
        /\ accounts = {1} /\ authUid = 1
        /\ rUsers = [u \in Uids |-> IF u = 1 THEN newUser(1, 1, TRUE, "F") ELSE NoUser]
        /\ registeredUsers = SnapshotUsers(rUsers)
        /\ user = rUsers[1] /\ showTour = TRUE
        /\ lsUsers = <<>> /\ lsSession = NoUser /\ lsNext = 0
     \/ /\ loginBuild = "part_000" /\ fbReady = FALSE /\ cfgSaved = FALSE
        /\ listening = "local" /\ mode = "signup"
        /\ accounts = {} /\ authUid = 0
        /\ rUsers = [u \in Uids |-> NoUser]
        /\ registeredUsers = <<>>
        /\ user = newUser(-1, 1, TRUE, "-") /\ showTour = FALSE
        /\ lsUsers = <<user>> /\ lsSession = user /\ lsNext = 1

ProspNext ==
  \/ SubmitOutreach
  \/ \E o \in AIOutcomes : AIResolve(o)
  \/ \E id \in PIds : SelectProspect(id)
  \/ Back
  \/ AddFollowUp
  \/ ToggleStatus
  \/ \E ok \in BOOLEAN : ConnectCloud(ok)
  \/ Reload
  \/ \E uid \in Uids : AuthCallback(uid)

SpecProspects == ProspInit /\ [][ProspNext]_vars

\* the prospect detail view of one session, with a second session writing to
\* the same store
DetailNext ==
  \/ SubmitOutreach
  \/ AIResolve("object")
  \/ \E id \in PIds : SelectProspect(id)
  \/ Back
  \/ AddFollowUp
  \/ ToggleStatus
  \/ ToggleBaptism
  \/ \E userId \in {0} \cup Uids : Assign(userId)
  \/ \E id \in PIds : PeerAddFollowUp(id)
  \/ ProspectsSnapshot
  \/ \E ok \in BOOLEAN : ConnectCloud(ok)

SpecDetail == ProspInit /\ [][DetailNext]_vars

(***************************************************************************)
(* The subscriptions of a session: snapshots and errors                    *)
(***************************************************************************)
SyncNext ==
  \/ SubmitOutreach
  \/ AIResolve("object")
  \/ \E id \in PIds : SelectProspect(id)
  \/ AddFollowUp
  \/ \E id \in PIds : PeerAddFollowUp(id)
  \/ ProspectsSnapshot
  \/ UsersSnapshot
  \/ \E l \in Listeners, code \in ErrorCodes : SyncError(l, code)
  \/ \E ok \in BOOLEAN : ConnectCloud(ok)

SpecSync == ProspInit /\ [][SyncNext]_vars

(***************************************************************************)
(* The two caches of a session and everything that writes them             *)
(***************************************************************************)
\* a session of the first registrant after a second user has registered and
\* the page has been loaded: on the remote backend, or on local storage
CacheInit ==
  /\ heap = [n \in NodeIds |-> [kind |-> "obj", items |-> <<>>]]
  /\ SanStart
  /\ ProspStart
  /\ configured = TRUE /\ cloudEnabled = TRUE /\ invitedRole = ""
  /\ appLoading = FALSE /\ permissionError = FALSE /\ inflight = {}
  /\ loginPc = "idle" /\ regUid = 0 /\ regFirst = FALSE
  /\ edits = 0 /\ reloads = 0 /\ mode = "login" /\ showTour = FALSE
  /\ lsCorrupt = {} /\ uncaught = FALSE /\ syncLog = NoLog /\ isSuccess = FALSE
  /\ \/ /\ loginBuild = "Login.tsx" /\ fbReady = TRUE /\ cfgSaved = TRUE
        /\ listening = "remote"
        /\ accounts = {1, 2} /\ authUid = 1
        /\ rUsers = [u \in Uids |-> IF u = 1 THEN newUser(1, 1, TRUE, "T")
                                    ELSE IF u = 2 THEN newUser(2, 2, FALSE, "F")
                                    ELSE NoUser]
        /\ registeredUsers = SnapshotUsers(rUsers)
        /\ user = rUsers[1]
        /\ lsUsers = <<>> /\ lsSession = NoUser /\ lsNext = 0
     \/ /\ loginBuild = "part_000" /\ fbReady = FALSE /\ cfgSaved = FALSE
        /\ listening = "local"
        /\ accounts = {} /\ authUid = 0
        /\ rUsers = [u \in Uids |-> NoUser]
        /\ lsUsers = <<newUser(-1, 1, TRUE, "-"), newUser(-2, 2, FALSE, "-")>>
        /\ registeredUsers = lsUsers
        /\ user = lsUsers[1] /\ lsSession = user /\ lsNext = 2

CacheNext ==
  \/ SubmitOutreach
  \/ AIResolve("object")
  \/ \E id \in PIds : SelectProspect(id)
  \/ Back
  \/ AddFollowUp
  \/ \E id \in PIds : PeerAddFollowUp(id)
  \/ ProspectsSnapshot
  \/ UsersSnapshot
  \/ \E u \in Uids : ExternalSetStatus(u, REJECTED)
  \/ \E i \in 1..MaxLocalUsers, req \in UNION {StatusRequests(registeredUsers[j]) : j \in 1..Len(registeredUsers)} :
       UpdateUserStatus(i, req)
  \/ \E nm \in ProfileNames : HandleUpdateProfile(nm)
  \/ \E ok \in BOOLEAN : ConnectCloud(ok)
  \/ Reload
  \/ \E uid \in Uids : AuthCallback(uid)

SpecCaches == CacheInit /\ [][CacheNext]_vars

(***************************************************************************)
(* The Cloud tab: a signed-in user submits configurations to CloudSetup    *)
(***************************************************************************)
SetupNext ==
  \/ \E ok \in BOOLEAN : ConnectCloud(ok)
  \/ LeaveCloudTab
  \/ UsersSnapshot
  \/ \E u \in Uids : ExternalSetStatus(u, REJECTED)
  \/ \E i \in 1..MaxLocalUsers, req \in UNION {StatusRequests(registeredUsers[j]) : j \in 1..Len(registeredUsers)} :
       UpdateUserStatus(i, req)
  \/ \E nm \in ProfileNames : HandleUpdateProfile(nm)
  \/ Reload
  \/ \E uid \in Uids : AuthCallback(uid)

SpecSetup == CacheInit /\ [][SetupNext]_vars

(***************************************************************************)
(* The two backends side by side: a local session (prospects, lsProspects) *)
(* and a remote deployment (rProspects, read through its subscription)     *)
(* receive the same calls of addProspect and updateProspect                *)
(***************************************************************************)
\* the list the remote subscription delivers
RemoteList == SnapshotProspects(rProspects)

\* NewOutreach.handleSubmit up to its await, in both
ParitySubmit ==
  /\ aiPc = "idle"
  /\ nextPid < MaxProspects
  /\ aiPc' = "awaiting"
  /\ savedClosure' = prospects
  /\ UNCHANGED <<sanVars, faultVars, appVars, rProspects, lsProspects, prospects,
                 selectedProspectId, nextPid, nextNote, added>>

\* addProspect(newProspect) in both, when the AI has answered
ParityAdd ==
  /\ aiPc = "awaiting"
  /\ aiPc' = "idle"
  /\ savedClosure' = <<>>
  /\ nextPid' = nextPid + 1
  /\ LET data == newProspect(nextPid + 1, analyzePreachingNotes("object"))
     IN  /\ prospects' = addLocal(savedClosure, data)
         /\ lsProspects' = prospects'
         /\ rProspects' = setDocProspect(rProspects, data)
  /\ UNCHANGED <<sanVars, faultVars, appVars, selectedProspectId, nextNote, added>>

\* handleAddFollowUp -> updateProspect in both, each on the copy its list holds
ParityFollowUp(id) ==
  /\ FindById(prospects, id, 1) # 0 /\ FindById(RemoteList, id, 1) # 0
  /\ nextNote < MaxNotes
  /\ nextNote' = nextNote + 1
  /\ LET lp == prospects[FindById(prospects, id, 1)]
         rp == RemoteList[FindById(RemoteList, id, 1)]
     IN  /\ prospects' = updateLocal(prospects,
                            [lp EXCEPT !.followUps = withFollowUp(@, nextNote + 1),
                                       !.status = "Followed Up"])
         /\ lsProspects' = prospects'
         /\ rProspects' = setDocProspect(rProspects,
                            [rp EXCEPT !.followUps = withFollowUp(@, nextNote + 1),
                                       !.status = "Followed Up"])
  /\ UNCHANGED <<sanVars, faultVars, appVars, selectedProspectId, aiPc, savedClosure,
                 nextPid, added>>

\* handleToggleStatus -> updateProspect in both
ParityToggle(id) ==
  /\ FindById(prospects, id, 1) # 0 /\ FindById(RemoteList, id, 1) # 0
  /\ LET lp == prospects[FindById(prospects, id, 1)]
         rp == RemoteList[FindById(RemoteList, id, 1)]
     IN  /\ prospects' = updateLocal(prospects, [lp EXCEPT !.status = nextStatus(@)])
         /\ lsProspects' = prospects'
         /\ rProspects' = setDocProspect(rProspects, [rp EXCEPT !.status = nextStatus(@)])
  /\ UNCHANGED <<sanVars, faultVars, appVars, selectedProspectId, aiPc, savedClosure,
                 nextPid, nextNote, added>>

ParityNext ==
  \/ ParitySubmit
  \/ ParityAdd
  \/ \E id \in PIds : ParityFollowUp(id)
  \/ \E id \in PIds : ParityToggle(id)

SpecParity == ProspInit /\ [][ParityNext]_vars

(***************************************************************************)
(* Registration on the remote backend, with registrations made elsewhere  *)
(***************************************************************************)
RaceInit ==
  /\ heap = [n \in NodeIds |-> [kind |-> "obj", items |-> <<>>]]
  /\ SanStart
  /\ \E invited \in {"", ADMIN} : AppStart("Login.tsx", TRUE, TRUE, invited)

RaceNext ==
  \/ \E e \in Uids : SubmitSignup(e)
  \/ RegisterGetDocs
  \/ SignupSetDoc
  \/ \E e \in Uids : GoogleSubmit(e)
  \/ GoogleGetDoc
  \/ \E photo \in BOOLEAN : GoogleSetDoc(photo)
  \/ \E uid \in Uids : PeerRegister(uid)
  \/ \E uid \in Uids : AuthCallback(uid)
  \/ UsersSnapshot
  \/ ToggleMode
  \/ Logout

SpecRace == RaceInit /\ [][RaceNext]_vars

(***************************************************************************)
(* The Login form of Login.tsx from its mount: every handler that sets     *)
(* loading, and the settling of what it awaits                             *)
(***************************************************************************)
LoginInit ==
  /\ heap = [n \in NodeIds |-> [kind |-> "obj", items |-> <<>>]]
  /\ SanStart
  /\ \E ready \in BOOLEAN, link \in BOOLEAN :
       AppStartWith("Login.tsx", TRUE, ready, "", link)

\* a promise a handler awaits settles
LoginSettles ==
  \/ LoginGetDoc
  \/ RegisterGetDocs
  \/ SignupSetDoc
  \/ GoogleGetDoc
  \/ \E photo \in BOOLEAN : GoogleSetDoc(photo)
  \/ LoginThrow
  \/ \E ok \in BOOLEAN : VerifyResetCode(ok)
  \/ \E ok \in BOOLEAN : ResetSettles(ok)

LoginNext ==
  \/ \E e \in Uids : SubmitLogin(e, TRUE)
  \/ \E e \in Uids : SubmitSignup(e)
  \/ \E e \in Uids : GoogleSubmit(e)
  \/ ToggleMode
  \/ ForgotLink
  \/ \E valid \in BOOLEAN : SubmitReset(valid)
  \/ LoginSettles

\* every promise settles: the collaborator answers or the request fails
SpecLogin == LoginInit /\ [][LoginNext]_vars /\ WF_vars(LoginSettles)

(***************************************************************************)
(* Local storage whose content is not parsable                             *)
(***************************************************************************)
\* the keys the application keeps its local data under: evangelism_session,
\* evangelism_prospects, evangelism_users
StorageKeys == {"session", "prospects", "users"}

\* the content of a key is replaced, from outside the application, by text
\* that is not JSON: what the key held is gone
CorruptKey(k) ==
  /\ k \notin lsCorrupt
  /\ lsCorrupt' = lsCorrupt \cup {k}
  /\ lsSession' = IF k = "session" THEN NoUser ELSE lsSession
  /\ lsProspects' = IF k = "prospects" THEN <<>> ELSE lsProspects
  /\ lsUsers' = IF k = "users" THEN <<>> ELSE lsUsers
  /\ UNCHANGED <<loginBuild, configured, fbReady, cfgSaved, invitedRole, cloudEnabled,
                 listening, user, appLoading, registeredUsers, showTour,
                 permissionError, authUid, accounts, inflight, rUsers, lsNext, mode,
                 loginPc, regUid, regFirst, edits, reloads, sanVars, uncaught, syncLog, isSuccess,
                 rProspects, prospects, selectedProspectId, aiPc, savedClosure,
                 nextPid, nextNote, added>>

\* a deployment in local mode with the Login that has a local branch
StorageInit ==
  /\ heap = [n \in NodeIds |-> [kind |-> "obj", items |-> <<>>]]
  /\ SanStart
  /\ \E invited \in {"", ADMIN} : AppStart("part_000", TRUE, FALSE, invited)

StorageNext ==
  \/ \E k \in StorageKeys : CorruptKey(k)
  \/ Reload
  \/ ToggleMode
  \/ \E e \in 1..MaxLocalUsers, pw \in Passwords : LocalLogin(e, pw)
  \/ \E e \in 1..MaxLocalUsers : LocalSignup(e)
  \/ Logout
  \/ \E nm \in ProfileNames : HandleUpdateProfile(nm)
  \/ SubmitOutreach
  \/ AIResolve("object")

SpecStorage == StorageInit /\ [][StorageNext]_vars

(***************************************************************************)
(* The application as a whole                                              *)
(***************************************************************************)
AppInit ==
  /\ heap = [n \in NodeIds |-> [kind |-> "obj", items |-> <<>>]]
  /\ SanStart
  /\ \E build \in {"Login.tsx", "part_000"}, ready \in BOOLEAN, invited \in {"", ADMIN} :
       AppStart(build, TRUE, ready, invited)

AppNext ==
  \/ \E e \in Uids : SubmitLogin(e, TRUE)
  \/ LoginGetDoc
  \/ \E e \in Uids : SubmitSignup(e)
  \/ RegisterGetDocs
  \/ SignupSetDoc
  \/ \E e \in Uids : GoogleSubmit(e)
  \/ GoogleGetDoc
  \/ \E photo \in BOOLEAN : GoogleSetDoc(photo)
  \/ LoginThrow
  \/ ToggleMode
  \/ \E e \in 1..MaxLocalUsers, pw \in Passwords : LocalLogin(e, pw)
  \/ \E e \in 1..MaxLocalUsers : LocalSignup(e)
  \/ \E uid \in Uids : AuthCallback(uid)
  \/ \E uid \in Uids : AuthCallbackFail(uid)
  \/ Logout
  \/ Reload
  \/ \E ok \in BOOLEAN : ConnectCloud(ok)
  \/ \E i \in 1..MaxLocalUsers, req \in UNION {StatusRequests(registeredUsers[j]) : j \in 1..Len(registeredUsers)} :
       UpdateUserStatus(i, req)
  \/ \E nm \in ProfileNames : HandleUpdateProfile(nm)
  \/ HandleCompleteTour
  \/ UsersSnapshot
  \/ \E u \in Uids : ExternalSetStatus(u, REJECTED)

SpecApp == AppInit /\ [][AppNext]_vars

(***************************************************************************)
(* Properties of the sanitizer and the serializer                          *)
(***************************************************************************)
RefTargets(h, n) ==
  {h[n].items[i].v.r : i \in {j \in 1..Len(h[n].items) : h[n].items[j].v.t = "ref"}}
RECURSIVE Closure(_, _, _)
Closure(h, S, k) ==
  IF k = 0 THEN S
  ELSE Closure(h, S \cup UNION {RefTargets(h, n) : n \in S}, k - 1)
\* the nodes reachable from the nodes of S in one step or more
ReachableFrom(h, S) == Closure(h, UNION {RefTargets(h, n) : n \in S}, Len(h))
\* the graph under value v holds a direct or indirect self-reference
HasCycleFrom(h, v) ==
  /\ v.t = "ref"
  /\ \E n \in {v.r} \cup ReachableFrom(h, {v.r}) : n \in ReachableFrom(h, {n})

\* no node of the result was built from a node one of its ancestors in the
\* result was built from: no edge of the result closes a cycle of the input
RECURSIVE NoEdgeToAncestor(_, _)
NoEdgeToAncestor(tree, anc) ==
  \/ tree.src = 0
  \/ /\ tree.src \notin anc
     /\ \A i \in 1..Len(tree.items) :
          NoEdgeToAncestor(tree.items[i].v, anc \cup {tree.src})

\* C3: on every graph of plain objects and arrays that holds a direct or
\* indirect self-reference, scrub returns (it raises no stack overflow) and
\* its result is an acyclic value without the edges that close a cycle
C3_CycleSafety ==
  (sanPc # "build" /\ HasCycleFrom(heap, arg)) =>
    (out # Thrown /\ NoEdgeToAncestor(out, {}))

\* a cyclic graph was scrubbed and lost exactly its cycle-closing property
C3_Witness ==
  /\ sanPc = "scrubbed"
  /\ HasCycleFrom(heap, arg)
  /\ Len(heap[arg.r].items) = 2
  /\ out.t = "obj"
  /\ Len(out.items) = 1

\* the properties and elements that refer to an object, in order
RefItems(items) == SelectSeq(items, LAMBDA it : it.v.t = "ref")
\* the properties and elements of a result that were built from an object
BuiltItems(items) == SelectSeq(items, LAMBDA it : it.v.src # 0)

\* every reference of the input below this node has its sanitized object at
\* the same position of the result
RECURSIVE AllRefsKept(_, _)
AllRefsKept(h, tree) ==
  \/ tree.src = 0
  \/ LET refsIn == RefItems(h[tree.src].items)
         refsOut == BuiltItems(tree.items)
     IN  /\ Len(refsOut) = Len(refsIn)
         /\ \A i \in 1..Len(refsOut) :
              /\ refsOut[i].v.src = refsIn[i].v.r
              /\ AllRefsKept(h, refsOut[i].v)

\* C25: the sanitizer drops only ancestors on the current path.  On a graph of
\* plain objects and arrays without a cycle, where no value is an ancestor of
\* itself, scrub drops no object: an object reachable along two paths appears
\* sanitized at both positions of the result.
C25_OnlyAncestorsDropped ==
  (sanPc # "build" /\ ~HasCycleFrom(heap, arg) /\ out # Thrown) =>
    AllRefsKept(heap, out)

\* C4: safeStringify returns, for every input, a string of parsable JSON text
C4_SerializerTotal ==
  sanPc = "encoded" => (text.kind = "string" /\ Parsable(text.text))

RECURSIVE OnlyPlainData(_, _)
OnlyPlainData(tree, top) ==
  \/ tree.t \in {"null", "num", "big"}
  \/ top /\ tree.t = "undef"
  \/ /\ tree.t \in {"arr", "obj"}
     /\ \A i \in 1..Len(tree.items) : OnlyPlainData(tree.items[i].v, FALSE)

\* C6: the value scrub returns holds only primitives, arrays and plain
\* mappings; everything else was dropped from its parent
C6_OutputShape == sanPc # "build" => OnlyPlainData(out, TRUE)

\* C7: scrub(scrub(x)) is structurally equal to scrub(x)
C7_Idempotent == sanPc \in {"rescrubbed", "encoded"} => Shape(out2) = Shape(out)

\* scrub was applied twice to a graph from which the first pass dropped a
\* property and kept another
C7_Witness ==
  /\ sanPc = "rescrubbed"
  /\ arg.t = "ref"
  /\ out.t \in {"obj", "arr"}
  /\ Len(out.items) = 1
  /\ Len(heap[arg.r].items) = 2

(***************************************************************************)
(* Properties of sessions, registrations and user records                  *)
(***************************************************************************)
\* C1: approval gating.  In every reachable state the active user of the
\* application, if there is one, is a profile that had status Approved when
\* its session was established, whatever the sequence of logins, Google
\* sign-ins, registrations, auth-state callbacks and reloads.
C1_ApprovalGating == user # NoUser => user.status = APPROVED

\* a session is active while a profile that is not Approved is stored, and a
\* principal whose profile is not Approved has authenticated before
C1_Witness ==
  /\ user # NoUser
  /\ \/ \E u \in Uids : u \in accounts /\ rUsers[u] # NoUser /\ rUsers[u].status # APPROVED
     \/ \E i \in 1..Len(lsUsers) : lsUsers[i].status # APPROVED

\* the role a registration asked for
RequestedRole == IF invitedRole # "" THEN invitedRole ELSE TEAM_MEMBER
BootstrapProfile(p, foundEmpty) ==
  IF foundEmpty THEN p.role = SUPER_ADMIN /\ p.status = APPROVED
  ELSE p.role = RequestedRole /\ p.status = PENDING

\* C2: first-user bootstrap.  Every step in which a registration (email
\* sign-up, Google first sign-in, local sign-up) writes its profile writes role
\* SuperAdmin and status Approved if the registration found the collection
\* empty, and status Pending with the requested role (Team Member when none
\* was requested) otherwise; what the registration found is the emptiness of
\* the collection at the time it read it.
C2_Bootstrap ==
  [][ /\ (loginPc \in {"signup_getDocs", "google_getDocs"} /\ loginPc' \notin {"idle", loginPc})
           => (regFirst' <=> \A u \in Uids : rUsers[u] = NoUser)
      /\ (loginPc \in {"signup_setDoc", "google_setDoc"} /\ loginPc' = "idle" /\ rUsers' # rUsers)
           => /\ BootstrapProfile(rUsers'[regUid], regFirst)
              /\ \A u \in Uids \ {regUid} : rUsers'[u] = rUsers[u]
      /\ Len(lsUsers') = Len(lsUsers) + 1
           => BootstrapProfile(lsUsers'[Len(lsUsers')], Len(lsUsers) = 0) ]_vars

\* a first registrant and a later one have both been written, remotely or locally
C2_Witness ==
  \/ \E u, w \in Uids : /\ rUsers[u] # NoUser /\ rUsers[u].role = SUPER_ADMIN
                        /\ rUsers[w] # NoUser /\ rUsers[w].status = PENDING
                        /\ rUsers[w].role = RequestedRole
  \/ /\ Len(lsUsers) >= 2
     /\ lsUsers[1].role = SUPER_ADMIN /\ lsUsers[1].status = APPROVED
     /\ lsUsers[2].status = PENDING /\ lsUsers[2].role = RequestedRole

\* the record rec with exactly the fields of the partial record d replaced
PatchOf(rec, d) == [f \in UserFields |-> IF f \in DOMAIN d THEN d[f] ELSE rec[f]]
\* the stored collection of the active backend after a patch of record id
PatchFrame(id, d) ==
  IF cloudEnabled /\ fbReady
  THEN /\ \A u \in Uids :
            rUsers'[u] = IF u = id /\ rUsers[u] # NoUser THEN PatchOf(rUsers[u], d) ELSE rUsers[u]
       /\ lsUsers' = lsUsers
  ELSE /\ Len(lsUsers') = Len(lsUsers)
       /\ \A i \in 1..Len(lsUsers) :
            lsUsers'[i] = IF lsUsers[i].id = id THEN PatchOf(lsUsers[i], d) ELSE lsUsers[i]
       /\ rUsers' = rUsers

\* C8: patch semantics.  Every step of updateUserStatus and of
\* handleUpdateProfile (handleCompleteTour included), in remote and in local
\* mode, changes in the stored record only the fields present with a defined
\* value in the partial record, and leaves every other field of that record
\* and every other record of the stored collection unchanged.
C8_PatchSemantics ==
  [][ /\ \A i \in 1..Len(registeredUsers) : \A req \in StatusRequests(registeredUsers[i]) :
           UpdateUserStatus(i, req) => PatchFrame(registeredUsers[i].id, scrubFlat(req))
      /\ \A nm \in ProfileNames : HandleUpdateProfile(nm) => PatchFrame(user.id, [name |-> nm])
      /\ HandleCompleteTour => PatchFrame(user.id, [tour |-> "T"]) ]_vars

\* the backend the write paths of App use, and the one Login uses
WritePath == IF cloudEnabled /\ fbReady THEN "remote" ELSE "local"
LoginPath == IF LoginRemote THEN "remote" ELSE "local"

C11_NoDanglingPrincipal ==
  (authUid # 0 /\ rUsers[authUid] = NoUser) =>
    (loginPc # "idle" \/ authUid \in inflight)

\* the steps in which a Login flow ends after its credential verification
\* succeeded and every lookup and write it awaited was answered
LoginFlowEnds ==
  \/ LoginGetDoc
  \/ GoogleGetDoc /\ loginPc' = "idle"
  \/ SignupSetDoc
  \/ \E photo \in BOOLEAN : GoogleSetDoc(photo)

\* C12: forced sign-out of unapproved principals.  Every step that ends an
\* email login, a Google sign-in or a registration for a principal whose
\* profile is then Pending or Rejected, with no auth-state callback for that
\* principal left to run, leaves the identity collaborator signed out.
C12_ForcedSignOut ==
  [][ (/\ LoginFlowEnds
       /\ rUsers'[regUid] # NoUser
       /\ rUsers'[regUid].status # APPROVED
       /\ regUid \notin inflight')
      => authUid' # regUid ]_vars

\* no persisted profile or session has a field whose value is undefined
PersistedClean ==
  /\ \A u \in Uids : ~HasUndefined(rUsers[u])
  /\ \A i \in 1..Len(lsUsers) : ~HasUndefined(lsUsers[i])
  /\ ~HasUndefined(lsSession)

\* C16: every write path is sanitized.  Every record a step hands to a
\* backend write has had its undefined fields removed, as the sanitizer
\* does: the profile of a Google registration, the partial records of
\* updateUserStatus and handleUpdateProfile; and no persisted record has a
\* field whose value is undefined.
C16_EveryWriteSanitized ==
  [][ /\ \A photo \in BOOLEAN :
           GoogleSetDoc(photo) => ~HasUndefined(GoogleNewUser(regUid, regFirst, photo))
      /\ PersistedClean' ]_vars

\* the ids of the profiles persisted in the two backends
StoredUserIds(remote, local) ==
  {u \in Uids : remote[u] # NoUser} \cup {local[i].id : i \in 1..Len(local)}

\* C14: user records are never deleted.  Without a page load in between, no
\* step removes a profile from the persisted Users collection of either
\* backend.
C14_NeverDeleted ==
  [][ reloads' = reloads =>
        StoredUserIds(rUsers, lsUsers) \subseteq StoredUserIds(rUsers', lsUsers') ]_vars

\* the persisted profile with this id, NoUser when there is none
StoredUser(remote, local, id) ==
  IF id \in Uids THEN remote[id]
  ELSE IF \E i \in 1..Len(local) : local[i].id = id
       THEN local[CHOOSE i \in 1..Len(local) : local[i].id = id]
       ELSE NoUser

\* the ids of the persisted profiles whose role or status a step changes
RoleOrStatusChanged ==
  {id \in StoredUserIds(rUsers, lsUsers) \cap StoredUserIds(rUsers', lsUsers') :
     \/ StoredUser(rUsers', lsUsers', id).role # StoredUser(rUsers, lsUsers, id).role
     \/ StoredUser(rUsers', lsUsers', id).status # StoredUser(rUsers, lsUsers, id).status}

\* a step of the application itself: the store is not written from outside
OwnStep == ~ \E u \in Uids : ExternalSetStatus(u, REJECTED)

C20_SyncErrorFlagged ==
  [][ \A l \in Listeners :
        SyncError(l, "permission-denied") =>
          /\ permissionError'
          /\ uncaught' = uncaught
          /\ prospects' = prospects
          /\ registeredUsers' = registeredUsers ]_vars

\* the prospects subscription has reported permission-denied in a signed-in
\* remote session whose two caches hold records
C20_Witness ==
  /\ syncLog = [msg |-> syncMessage("prospects"), code |-> "permission-denied"]
  /\ permissionError /\ ~uncaught
  /\ listening = "remote"
  /\ user # NoUser
  /\ prospects # <<>> /\ registeredUsers # <<>>

\* C21: cache write discipline.  A step that changes the cached prospects or
\* the cached users is a delivery of the subscription (which runs only when
\* the effect took its remote branch) or, with the write path local, a
\* mutation function or the initial read, which leave the cache equal to
\* what local storage holds; and the subscriptions are never attached while
\* the write path is local.
C21_CacheWriteDiscipline ==
  [][ /\ listening' = "remote" => WritePath' = "remote"
      /\ prospects' # prospects =>
            \/ listening' = "remote" /\ prospects' = SnapshotProspects(rProspects')
            \/ /\ listening' = "local" /\ prospects' = lsProspects'
               /\ Reload \/ WritePath = "local"
      /\ registeredUsers' # registeredUsers =>
            \/ listening' = "remote" /\ registeredUsers' = SnapshotUsers(rUsers')
            \/ /\ listening' = "local" /\ registeredUsers' = lsUsers'
               /\ Reload \/ WritePath = "local" ]_vars

\* a remote session whose two caches hold what the subscriptions delivered
\* after a write to each collection
C21_Witness ==
  /\ listening = "remote" /\ WritePath = "remote" /\ user # NoUser
  /\ prospects # <<>> /\ prospects = SnapshotProspects(rProspects)
  /\ \E i \in 1..Len(registeredUsers) :
        registeredUsers[i].id = 2 /\ registeredUsers[i].status = APPROVED

\* C22: onboarding runs once and only for the right user.  The flag showTour
\* is never up while the active user is one whose hasSeenTour is true, and a
\* step raises it only for an active user whose hasSeenTour is false.
C22_TourForRightUser ==
  [][ /\ (showTour' /\ user' # NoUser) => user'.tour # "T"
      /\ (showTour' /\ ~showTour) => (user' # NoUser /\ user'.tour = "F") ]_vars

\* C26: first-user bootstrap race.  A registration that read the Users
\* collection as empty writes its profile with role SuperAdmin and status
\* Approved whatever the collection holds when it writes: nothing limits the
\* promotion to one user.
C26_BootstrapRace ==
  [][ (regFirst /\ (SignupSetDoc \/ \E photo \in BOOLEAN : GoogleSetDoc(photo))
         /\ rUsers' # rUsers)
        => /\ rUsers'[regUid].role = SUPER_ADMIN
           /\ rUsers'[regUid].status = APPROVED ]_vars

\* two registrations have read the collection as empty and both profiles are
\* SuperAdmin and Approved
C26_Witness ==
  /\ edits = 0
  /\ \A u \in {1, 2} : /\ rUsers[u] # NoUser
                        /\ rUsers[u].role = SUPER_ADMIN
                        /\ rUsers[u].status = APPROVED

\* C27: the first registrant becomes Active under every interleaving.  Once
\* a first registration has written its Approved SuperAdmin profile and the
\* auth-state callback for that principal has ended, the principal's profile
\* is the active user (without a reload or another sign-in).
C27_FirstRegistrantActive ==
  (/\ listening = "remote" /\ reloads = 0 /\ edits = 0
   /\ authUid # 0 /\ loginPc = "idle" /\ inflight = {}
   /\ rUsers[authUid] # NoUser
   /\ rUsers[authUid].role = SUPER_ADMIN /\ rUsers[authUid].status = APPROVED)
    => (user # NoUser /\ user.id = authUid)

\* the argument record of the Approve button: onUpdateStatus(u.id, APPROVED)
ApproveRequest == [status |-> APPROVED, role |-> "undefined"]

\* C28: editing a user's team label or role leaves that user's approval
\* status unchanged.  Every call of updateUserStatus that does not come from
\* the Approve button leaves the stored status of its target as it was.
C28_EditKeepsStatus ==
  [][ \A i \in 1..Len(registeredUsers) :
        \A req \in StatusRequests(registeredUsers[i]) \ {ApproveRequest} :
          UpdateUserStatus(i, req) =>
            StoredUser(rUsers', lsUsers', registeredUsers[i].id).status
              = StoredUser(rUsers, lsUsers, registeredUsers[i].id).status ]_vars

\* C29: the login form's loading flag always clears.  From every state in
\* which Login's loading is true, a state in which it is false follows.
C29_LoadingClears == LoginLoading ~> ~LoginLoading

\* C30: cloud setup reports success only when the remote backend was
\* enabled.  CloudSetup reaches isSuccess only in a step after which the
\* handles are set, the configuration is saved and cloudEnabled is true; a
\* submission whose initFirebase fails does not reach it and saves nothing.
C30_SuccessOnlyWhenEnabled ==
  [][ /\ (isSuccess' /\ ~isSuccess) => (fbReady' /\ cfgSaved' /\ cloudEnabled')
      /\ ConnectCloud(FALSE) => (~isSuccess' /\ cfgSaved' = cfgSaved) ]_vars

\* C18: local-mode login.  A local login establishes a session only when a
\* stored profile has the submitted email, that profile is Approved and the
\* submitted password equals the password stored for it.
C18_LocalPassword ==
  [][ \A e \in 1..MaxLocalUsers, pw \in Passwords :
        (LocalLogin(e, pw) /\ user' # NoUser) =>
          LET i == FindByEmail(lsUsers, e, 1)
          IN  /\ i # 0
              /\ lsUsers[i].status = APPROVED
              /\ storedPassword(lsUsers[i]) = pw ]_vars

\* the steps in which the application reads a local-storage key
ReadsKey(k) ==
  \/ Reload /\ listening' = "local"
  \/ /\ k = "users"
     /\ \/ \E e \in 1..MaxLocalUsers, pw \in Passwords : LocalLogin(e, pw)
        \/ \E e \in 1..MaxLocalUsers : LocalSignup(e)
        \/ /\ ~(cloudEnabled /\ fbReady)
           /\ (\E nm \in ProfileNames : HandleUpdateProfile(nm)) \/ HandleCompleteTour

\* C19: local storage corruption.  Every step in which the application reads
\* a local-storage key (session, prospects, users) whose content is not
\* parsable JSON removes that key and lets no exception escape.
C19_CorruptionHandled ==
  [][ \A k \in lsCorrupt :
        ReadsKey(k) => (k \notin lsCorrupt' /\ uncaught' = uncaught) ]_vars

(***************************************************************************)
(* Properties of prospects                                                 *)
(***************************************************************************)
\* the record with this id in the store the write path uses, NoProspect if none
StoredProspect(id) ==
  IF cloudEnabled /\ fbReady THEN rProspects[id]
  ELSE IF FindById(lsProspects, id, 1) # 0
       THEN lsProspects[FindById(lsProspects, id, 1)] ELSE NoProspect

\* the same in the state a step leads to
StoredProspectAfter(id) ==
  IF cloudEnabled' /\ fbReady' THEN rProspects'[id]
  ELSE IF FindById(lsProspects', id, 1) # 0
       THEN lsProspects'[FindById(lsProspects', id, 1)] ELSE NoProspect

\* enum HungerLevel
HungerLevels == {"Low", "Medium", "High"}

\* a review as types.ts declares it
ValidReview(r) ==
  /\ r.hungerLevel \in HungerLevels
  /\ r.suggestedVerse # ""
  /\ r.suggestedNextAction # ""
  /\ r.summary # ""

\* C23: every persisted prospect has a valid review.  Whatever text the AI
\* collaborator returned, the review of every stored prospect has a
\* hungerLevel among Low, Medium, High and a non-empty verse, next action and
\* summary.
C23_ValidReview ==
  /\ \A id \in PIds : rProspects[id] # NoProspect => ValidReview(rProspects[id].aiReview)
  /\ \A i \in 1..Len(lsProspects) : ValidReview(lsProspects[i].aiReview)

\* C24: backend parity for prospects.  After every call of addProspect and
\* updateProspect made to both backends, the list the local session holds
\* equals the list the remote subscription delivers.
C24_BackendParity == prospects = RemoteList

\* C5: AI-failure fallback.  Every step that ends a new-outreach submission
\* whose AI request was rejected, or answered with text that is not JSON,
\* calls addProspect once: one prospect id is drawn and the prospect stored
\* under it carries the fixed default review.
C5_AIFallback ==
  [][ \A o \in {"rejected", "notJSON"} :
        AIResolve(o) =>
          /\ nextPid' = nextPid + 1
          /\ StoredProspectAfter(nextPid + 1) # NoProspect
          /\ StoredProspectAfter(nextPid + 1).aiReview = ParseFailureReview ]_vars

Reverse(seq) == [i \in 1..Len(seq) |-> seq[Len(seq) + 1 - i]]

\* C9: follow-up ordering.  In every reachable state the stored followUps of
\* a prospect are the notes added to it since its creation, all of them, newest
\* first.
C9_FollowUpOrder ==
  \A id \in PIds :
    StoredProspect(id) # NoProspect => StoredProspect(id).followUps = Reverse(added[id])

\* the record with this id in local storage, NoProspect if none
LocalProspect(list, id) ==
  IF FindById(list, id, 1) # 0 THEN list[FindById(list, id, 1)] ELSE NoProspect

\* a step changes the status of the prospect persisted under this id
StatusChanged(id) ==
  \/ /\ rProspects[id] # NoProspect /\ rProspects'[id] # NoProspect
     /\ rProspects'[id].status # rProspects[id].status
  \/ /\ LocalProspect(lsProspects, id) # NoProspect
     /\ LocalProspect(lsProspects', id) # NoProspect
     /\ LocalProspect(lsProspects', id).status # LocalProspect(lsProspects, id).status

\* the persisted status of the prospect after a step, in the store written
StatusAfter(id) ==
  IF rProspects'[id] # rProspects[id] THEN rProspects'[id].status
  ELSE LocalProspect(lsProspects', id).status
\* the same before the step
StatusBefore(id) ==
  IF rProspects'[id] # rProspects[id] THEN rProspects[id].status
  ELSE LocalProspect(lsProspects, id).status

\* the cycle New -> Followed Up -> Member -> New
CycleSuccessor(st) ==
  IF st = "New" THEN "Followed Up" ELSE IF st = "Followed Up" THEN "Member" ELSE "New"

\* C13 as claimed: the status of a persisted prospect changes only in a step
\* of the manual status toggle, which moves it New -> Followed Up -> Member
\* -> New; adding a follow-up, toggling baptism interest and changing the
\* assignment leave it unchanged.
C13_StatusOnlyByToggle ==
  [][ \A id \in PIds :
        StatusChanged(id) =>
          /\ ToggleStatus
          /\ id = selectedProspectId
          /\ StatusAfter(id) = CycleSuccessor(StatusBefore(id)) ]_vars

\* C13 as the code has it: the status of a persisted prospect changes only in
\* a step that writes the prospect.  The manual toggle writes the successor
\* (New -> Followed Up -> Member -> New) of the status of the copy shown,
\* adding a follow-up writes Followed Up, and every other write (the baptism
\* toggle, the assignment, the local save of a new prospect with the list it
\* captured) writes the status of the writer's copy back: it changes the
\* persisted status only when that copy is stale.
C13_StatusByToggleOrFollowUp ==
  [][ \A id \in PIds :
        StatusChanged(id) =>
          \/ /\ ToggleStatus
             /\ id = selectedProspectId
             /\ StatusAfter(id) = CycleSuccessor(ShownProspect.status)
          \/ /\ (AddFollowUp /\ id = selectedProspectId) \/ PeerAddFollowUp(id)
             /\ StatusAfter(id) = "Followed Up"
          \/ /\ ToggleBaptism \/ \E userId \in {0} \cup Uids : Assign(userId)
             /\ id = selectedProspectId
             /\ StatusAfter(id) = ShownProspect.status
             /\ ShownProspect.status # StatusBefore(id)
          \/ /\ \E o \in AIOutcomes : AIResolve(o)
             /\ StatusAfter(id) = LocalProspect(savedClosure, id).status
             /\ LocalProspect(savedClosure, id).status # StatusBefore(id) ]_vars

\* a follow-up was added to a prospect whose status the toggle had moved to
\* Member, and the baptism flag and the assignment of a prospect were changed
C13_Witness ==
  \E id, id2 \in PIds :
    /\ rProspects[id] # NoProspect
    /\ rProspects[id].status = "Followed Up"
    /\ Len(rProspects[id].followUps) = 1
    /\ rProspects[id].baptism
    /\ rProspects[id2] # NoProspect
    /\ rProspects[id2].status = "Member"
    /\ rProspects[id2].assignedTo # 0

\* the notes of a sequence
NotesOf(seq) == {seq[k] : k \in 1..Len(seq)}

\* C15: followUps is append-only.  In every reachable state the stored
\* followUps of a prospect hold every follow-up that was ever persisted for
\* it, whatever handlers this session and another session of the same
\* deployment have run on their copies of it.
C15_FollowUpsAppendOnly ==
  \A id \in PIds :
    /\ rProspects[id] # NoProspect =>
         NotesOf(added[id]) \subseteq NotesOf(rProspects[id].followUps)
    /\ LocalProspect(lsProspects, id) # NoProspect =>
         NotesOf(added[id]) \subseteq NotesOf(LocalProspect(lsProspects, id).followUps)
====
